---- MODULE Spec2Model ----
(***************************************************************************)
(* Caching and quota-gated recipe pipeline of wine-pairing-suggestions:    *)
(* the cache (package cache), the web application's middlewares and        *)
(* handlers (package webapp) and the model tools (package mcp).            *)
(*                                                                         *)
(* Every request is a process: one step per call into the cache or into a  *)
(* collaborator (fetcher, model); the steps of concurrent requests          *)
(* interleave.                                                             *)
(***************************************************************************)
EXTENDS Integers, Sequences, FiniteSets, TLC

VARIABLES
    backend,    \* "memory" or "redis": the Cacher the Webapp was built with
    faulty,     \* TRUE when calls to the networked store may fail
    store,      \* the cache: a function from the keys present to their values
    ttl,        \* lifespan in seconds of every key present (0: no expiry)
    req,        \* the requests in flight, one record per request slot
    started     \* the number of requests received so far

vars == <<backend, faulty, store, ttl, req, started>>

----------------------------------------------------------------------------
(* Program constants *)

maxQuota == 10
maxQuotaLifespanSeconds == 60 * 60 * 24 * 7
sessionLifespanSeconds == 60 * 60 * 24 * 7
logPrefixLen == 15
http_StatusOK == 200
http_StatusBadGateway == 502
\* var count = 3 of GetRecentSuggestions
sampleSize == 3

----------------------------------------------------------------------------
(* Bounds *)

MaxRequests == 2
\* tool calls the agent makes in one run before it must answer
MaxToolCalls == 2

Requests == {"r1", "r2"}
Accounts == {"a1"}
LongUrl == "https://x.test/stew"
ShortUrl == "www.x.test/pie"
Urls == {LongUrl, ShortUrl}
RecipeText == "beef stew with red wine"
\* request bodies of the suggestionsV2 route
Bodies == {LongUrl, RecipeText, " "}
Emails == [a \in Accounts |-> a \o "@x.test"]
\* the statuses the server of a page answers with
PageStatuses == {200, 404, 502}
NoCookie == "<no cookie>"

----------------------------------------------------------------------------
(* strconv.Itoa and strconv.ParseInt on the decimal strings the quota takes *)

Digit == <<"0", "1", "2", "3", "4", "5", "6", "7", "8", "9">>

RECURSIVE Itoa(_)
Itoa(n) ==
    IF n < 0 THEN "-" \o Itoa(0 - n)
    ELSE IF n < 10 THEN Digit[n + 1]
    ELSE Itoa(n \div 10) \o Digit[(n % 10) + 1]

IntRange == (0 - maxQuota)..maxQuota

\* ParseInt(s, 10, 64): ok is FALSE when s is not a decimal integer
ParseInt(s) ==
    IF \E n \in IntRange : Itoa(n) = s
    THEN [ok |-> TRUE, val |-> CHOOSE n \in IntRange : Itoa(n) = s]
    ELSE [ok |-> FALSE, val |-> 0]

----------------------------------------------------------------------------
(* Cache keys *)

sessionQuotaKey(accountID) == "quotas:" \o accountID
accountKey(accountID) == "accounts:" \o accountID
sessionKey(accountID) == "sessions:" \o accountID
\* variant of rawKey without the namespace of the recipe keys
rawKey_Bare(u) == "raw:" \o u
rawKey(u) == "recipes:raw:" \o u
parsedKey(u) == "recipes:parsed:" \o u
summarizedKey(u) == "recipes:summarized:" \o u
suggestionsKey(u) == "recipes:suggestions-json:" \o u

\* strings.TrimSpace on the request bodies
TrimSpace(body) == IF body = " " THEN "" ELSE body

\* strings.HasPrefix
HasPrefix(s, prefix) ==
    Len(s) >= Len(prefix) /\ SubSeq(s, 1, Len(prefix)) = prefix

\* s[i:] starts with p
StartsAt(s, i, p) ==
    i + Len(p) - 1 <= Len(s) /\ SubSeq(s, i, i + Len(p) - 1) = p

\* \S of the regexp: position i of s holds a character that is not white space
NonSpaceAt(s, i) ==
    i <= Len(s) /\ SubSeq(s, i, i) \notin {" ", "\t", "\n"}

\* the alternatives https?://\S+ and www\.\S+ : the length of the prefix
\* that matches at position i, 0 when neither alternative matches there
RxMatchAt(s, i) ==
    LET fits(p) == StartsAt(s, i, p) /\ NonSpaceAt(s, i + Len(p))
    IN  IF fits("http://") THEN Len("http://")
        ELSE IF fits("https://") THEN Len("https://")
        ELSE IF fits("www.") THEN Len("www.")
        ELSE 0

\* recentSuggestionRx.FindString: the leftmost match, \S+ taken greedily up
\* to the next white space; "" when there is no match
recentSuggestionRx(s) ==
    LET starts == {i \in 1..Len(s) : RxMatchAt(s, i) > 0}
    IN  IF starts = {} THEN ""
        ELSE LET i == CHOOSE a \in starts : \A b \in starts : a <= b
                 spaces == {j \in i..Len(s) : ~NonSpaceAt(s, j)}
                 end == IF spaces = {} THEN Len(s)
                        ELSE (CHOOSE a \in spaces : \A b \in spaces : a <= b) - 1
             IN  SubSeq(s, i, end)

\* helpers.HashContent: a hex digest, distinct for distinct texts
HashContent(text) == "hash(" \o text \o ")"

getCacheKeyForInput(input) ==
    IF recentSuggestionRx(input) # ""
    THEN "recipes:suggestions-json:" \o recentSuggestionRx(input)
    ELSE "recipes:suggestions-json:content:" \o HashContent(input)

----------------------------------------------------------------------------
(* The cache: package cache *)

Put(f, k, v) == [x \in DOMAIN f \cup {k} |-> IF x = k THEN v ELSE f[x]]
Drop(f, k) == [x \in DOMAIN f \ {k} |-> f[x]]

DB(s, t) == [s |-> s, t |-> t]
Same == DB(store, ttl)
Written(key, val, seconds) == DB(Put(store, key, val), Put(ttl, key, seconds))

Hit(val) == [res |-> "hit", val |-> val]
Miss == [res |-> "miss", val |-> ""]
Err == [res |-> "err", val |-> ""]

\* what a read of the networked store can answer besides the stored state
BackendErrors == IF faulty THEN {Err} ELSE {}

\* variant of memoryGet that never finds the key
memoryGet_NeverFound(key) == {Miss}

\* memory.Get up to the call of onMiss: the lookup in the map
memoryGet(key) ==
    IF key \in DOMAIN store THEN {Hit(store[key])} ELSE {Miss}

\* variant of redisGet that answers an empty value for a key it holds
redisGet_Stale(key) ==
    (IF key \in DOMAIN store THEN {Hit("")} ELSE {Miss}) \cup BackendErrors

\* redis.Get up to the call of onMiss: GET answers the value, Nil or an error
redisGet(key) ==
    (IF key \in DOMAIN store THEN {Hit(store[key])} ELSE {Miss}) \cup BackendErrors

\* Cacher.Get / GetOrFetch, first half: the possible answers of the lookup
GetOrFetch(key) ==
    IF backend = "memory" THEN memoryGet(key) ELSE redisGet(key)

\* variant of memoryResolved that keeps the value of a key written meanwhile
memoryResolved_KeepsFirst(key, val) ==
    IF key \in DOMAIN store THEN {Same} ELSE {Written(key, val, 0)}

\* memory.Get after onMiss succeeded: m.cache[key] = val
memoryResolved(key, val) == {Written(key, val, 0)}

\* variant of redisResolved that writes the value with a lifespan
redisResolved_Expiring(key, val) ==
    {Written(key, val, maxQuotaLifespanSeconds)} \cup (IF faulty THEN {Same} ELSE {})

\* redis.Get after onMiss succeeded: SET key val 0, an error is logged and eaten
redisResolved(key, val) ==
    {Written(key, val, 0)} \cup (IF faulty THEN {Same} ELSE {})

\* Cacher.Get / GetOrFetch, second half: the cache after onMiss returned val
Resolved(key, val) ==
    IF backend = "memory" THEN memoryResolved(key, val) ELSE redisResolved(key, val)

\* memory.Set / redis.Set: unconditional write without expiry
Set(key, val) ==
    IF backend = "memory"
    THEN {Written(key, val, 0)}
    ELSE {Written(key, val, 0)} \cup (IF faulty THEN {Same} ELSE {})

\* memory.SetEx drops the lifespan, redis.SetEx passes it to SET
SetEx(key, val, seconds) ==
    IF backend = "memory"
    THEN Set(key, val)
    ELSE {Written(key, val, seconds)} \cup (IF faulty THEN {Same} ELSE {})

\* set-if-absent with a lifespan
SetNx(key, val, seconds) ==
    (IF key \in DOMAIN store THEN {Same} ELSE {Written(key, val, seconds)})
        \cup (IF faulty /\ backend = "redis" THEN {Same} ELSE {})

\* plain read: the value, or ErrKeyNotFound, or an error of the backend
Get(key) ==
    (IF key \in DOMAIN store THEN {Hit(store[key])} ELSE {Miss})
        \cup (IF backend = "redis" THEN BackendErrors ELSE {})

\* atomic decrement of a numeric value; fails on a missing or non-numeric key
Decr(key) ==
    (IF key \in DOMAIN store /\ ParseInt(store[key]).ok
     THEN {DB(Put(store, key, Itoa(ParseInt(store[key]).val - 1)), ttl)}
     ELSE {Same})
        \cup (IF faulty /\ backend = "redis" THEN {Same} ELSE {})

\* removal of a key; absent keys are no error
Delete(key) ==
    {[db |-> DB(Drop(store, key), Drop(ttl, key)), err |-> FALSE]}
        \cup (IF faulty /\ backend = "redis" THEN {[db |-> Same, err |-> TRUE]} ELSE {})

Apply(db) == store' = db.s /\ ttl' = db.t

----------------------------------------------------------------------------
(* Collaborators: the content fetcher and the model *)

\* what io.ReadAll of the fetched page yields
RawContent(u) == "<html>" \o u
\* the body the server of the page sends along with a status: the page, or
\* an error page
PageBody(u, code) ==
    IF code = http_StatusOK THEN RawContent(u) ELSE "<html>error " \o u

\* FetchRawFromURL, the check of resp.StatusCode: TRUE when the body is returned
FetchRawFromURL(code) == code >= http_StatusOK /\ code < http_StatusBadGateway
\* helpers.CreateMarkdownFromRaw
Markdown(raw) == "md " \o raw
\* the summary field of the model's answer to SummarizeRecipe
SummaryOf(md) == "summary of " \o md
\* the answers the model can give to GeneratePairingSuggestions
SuggestionsOf(summary) == {"[cabernet]", "[merlot]"}

\* url.PathUnescape, FetchRawFromURL and io.ReadAll each succeed or fail
FetchOutcomes == {"ok", "unescape", "fetch", "read"}
MarkdownOutcomes == {"ok", "error"}
\* SummarizeRecipe fails, or answers text that does not parse, an abort, or a summary
SummarizeOutcomes == {"ok", "error", "unparsable", "abort"}
GenerateOutcomes == {"ok", "error"}
\* the agent run of GeneratePairingSuggestionsV2 fails, or ends with text that
\* does not parse, with an error message in it, or with suggestions
AgentOutcomes == {"ok", "error", "unparsable", "errormsg"}
AgentAnswers == {"{cabernet}"}

----------------------------------------------------------------------------
(* Requests *)

Unset == "<unset>"

Idle ==
    [route |-> "idle", pc |-> "idle", cookie |-> NoCookie, u |-> "",
     cred |-> "", sub |-> "", session |-> Unset, quota |-> Unset, val |-> "",
     status |-> 0, body |-> "", setcookie |-> "",
     calls |-> 0, entered |-> FALSE, hit |-> FALSE, inv |-> 0,
     charges |-> 0, qd |-> 0, list |-> <<>>, access |-> "", gone |-> ""]

\* Request fields beyond the program's own: entered (the wrapped handler
\* ran), hit (the suggestions came from the cache), inv (calls of the model),
\* charges (calls of Decr), qd (by how much they changed the quota) and list
\* (the slice GetRecentSuggestions marshals into its body).  access tells
\* that the goroutine of the request is inside a read or a write of the map
\* of the in-memory store; it is followed only where the accesses are split
\* from the steps that complete them.  gone is the step at which the client
\* of the request went away, empty while it waits for the response.

Merge(rec, upd) == [f \in DOMAIN rec |-> IF f \in DOMAIN upd THEN upd[f] ELSE rec[f]]

\* request r continues with its fields changed as in upd
Continue(r, upd) ==
    req' = [req EXCEPT ![r] = Merge(@, upd @@ [access |-> ""])]

Response(status, body) == [pc |-> "done", status |-> status, body |-> body]

\* the integer stored as the quota of the account in cache s, absent: none
Quota(s, a) ==
    IF sessionQuotaKey(a) \in DOMAIN s THEN ParseInt(s[sessionQuotaKey(a)]) ELSE [ok |-> FALSE, val |-> 0]

\* by how much the step that leaves the cache as db changed the quota of a
Charged(db, a) ==
    IF Quota(store, a).ok /\ Quota(db.s, a).ok
    THEN Quota(db.s, a).val - Quota(store, a).val
    ELSE 0

----------------------------------------------------------------------------
(* Routing and middlewares: Webapp.Start, WithSessionRequired,             *)
(* WithAccountDetails, WithSufficientQuota                                 *)

Gated == {"summary", "suggestions", "suggestionsV2"}
SessionRoutes == Gated \cup {"user", "recent", "logout"}
Routes == SessionRoutes \cup {"home", "oauth"}

\* the {url} path value of the route, empty when the adapter passes none
PathValues(route) ==
    IF route \in Gated THEN Urls \cup {""}
    ELSE {""}

\* the first check of PostOauthResponse the submitted form fails, or how the
\* credential JWT fares in jwt.ParseWithClaims
Credentials ==
    {"badform", "nocsrf", "nocsrfcookie", "mismatch", "nocerts",
     "malformed", "badsignature", "valid"}

\* WithSessionRequired: 401 without a session cookie, otherwise the cookie
\* value becomes the account id of the request context
WithSessionRequired(route, cookie) ==
    IF cookie = NoCookie
    THEN Response(401, "session required")
    ELSE [pc |-> (CASE route = "recent" -> "recent"
                    [] route = "logout" -> "logout"
                    [] OTHER -> "wad_quota"),
          session |-> cookie]

\* mux.HandleFunc: a request arrives on one of the routes, with one of the
\* bodies if the route reads a body, and enters its first wrapper
Arrive(r, routes, bodies) ==
    /\ req[r].pc = "idle"
    /\ started < MaxRequests
    /\ started' = started + 1
    /\ \E route \in routes :
          \E cookie \in Accounts \cup {NoCookie},
             u \in (IF route = "suggestionsV2" THEN bodies ELSE PathValues(route)),
             cred \in (IF route = "oauth" THEN Credentials ELSE {""}),
             sub \in (IF route = "oauth" THEN Accounts ELSE {""}) :
             LET inp == [route |-> route, cookie |-> cookie, u |-> u,
                         cred |-> cred, sub |-> sub]
             IN  Continue(r,
                     IF route \in SessionRoutes
                     THEN WithSessionRequired(route, cookie) @@ inp
                     ELSE IF route = "oauth"
                     THEN [pc |-> "oauth_accounts"] @@ inp
                     ELSE [pc |-> "wad_quota"] @@ inp)
    /\ UNCHANGED <<backend, faulty, store, ttl>>

Start(r) == Arrive(r, Routes, Bodies)

\* variant of WithSufficientQuota that lets a quota through that is no
\* integer
WithSufficientQuota_UnparsedPasses(quota) ==
    IF quota = Unset
    THEN Response(500, "quota not loaded in context")
    ELSE IF ~ParseInt(quota).ok
    THEN [pc |-> "next"]
    ELSE IF ParseInt(quota).val <= 0
    THEN Response(400, "the current account has insufficient quota")
    ELSE [pc |-> "next"]

\* variant of WithSufficientQuota that lets a quota of 0 through
WithSufficientQuota_ZeroPasses(quota) ==
    IF quota = Unset
    THEN Response(500, "quota not loaded in context")
    ELSE IF ~ParseInt(quota).ok
    THEN Response(500, "unable to parse quota")
    ELSE IF ParseInt(quota).val < 0
    THEN Response(400, "the current account has insufficient quota")
    ELSE [pc |-> "next"]

\* the gate of WithSufficientQuota on the quota of the request context
WithSufficientQuota(quota) ==
    IF quota = Unset
    THEN Response(500, "quota not loaded in context")
    ELSE IF ~ParseInt(quota).ok
    THEN Response(500, "unable to parse quota")
    ELSE IF ParseInt(quota).val <= 0
    THEN Response(400, "the current account has insufficient quota")
    ELSE [pc |-> "next"]

\* the first statements of the handlers, up to their first cache call
Handler(route, u) ==
    [entered |-> TRUE] @@
    CASE route = "summary" ->
            IF u = "" THEN Response(400, "URL required")
            ELSE IF Len(u) < logPrefixLen THEN Response(0, "panic: slice bounds out of range")
            ELSE [pc |-> "pcr_raw"]
      [] route = "suggestions" ->
            IF u = "" THEN Response(400, "URL required")
            ELSE [pc |-> "grws_summary"]
      [] route = "suggestionsV2" ->
            IF TrimSpace(u) = "" THEN Response(400, "input cannot be empty")
            ELSE [pc |-> "v2_get", u |-> TrimSpace(u)]

\* GetUserDetails and GetHome render the quota of the context
Details(quota) == Response(200, IF quota = Unset THEN "" ELSE quota)

\* next.ServeHTTP of WithAccountDetails with the quota loaded; nothing reads
\* the quota of the context afterwards
Next_(route, u, quota) ==
    [quota |-> Unset] @@
    IF route \in Gated
    THEN LET gate == WithSufficientQuota(quota)
         IN  IF gate.pc = "next" THEN Handler(route, u) ELSE gate
    ELSE Details(quota)

\* WithAccountDetails: without a cookie the wrapped handler runs at once,
\* otherwise the quota is looked up with a resolver that always fails
WithAccountDetailsQuota(r) ==
    /\ req[r].pc = "wad_quota"
    /\ IF req[r].cookie = NoCookie
       THEN Continue(r, Next_(req[r].route, req[r].u, Unset))
       ELSE LET key == sessionQuotaKey(req[r].cookie)
            IN  \E o \in GetOrFetch(key) :
                   IF o.res = "hit"
                   THEN Continue(r, [pc |-> "wad_email", quota |-> o.val])
                   ELSE Continue(r, [pc |-> "wad_setnx"])
    /\ UNCHANGED <<backend, faulty, store, ttl, started>>

\* variant of WithAccountDetailsSetNx that writes the maximum with Set
WithAccountDetailsSetNx_Resets(r) ==
    /\ req[r].pc = "wad_setnx"
    /\ LET key == sessionQuotaKey(req[r].cookie)
           qs == Itoa(maxQuota)
       IN  /\ \E db \in Set(key, qs) : Apply(db)
           /\ Continue(r, [pc |-> "wad_email", quota |-> qs])
    /\ UNCHANGED <<backend, faulty, started>>

\* variant of WithAccountDetailsSetNx that provisions without a lifespan
WithAccountDetailsSetNx_NoLifespan(r) ==
    /\ req[r].pc = "wad_setnx"
    /\ LET key == sessionQuotaKey(req[r].cookie)
           qs == Itoa(maxQuota)
       IN  /\ \E db \in SetNx(key, qs, 0) : Apply(db)
           /\ Continue(r, [pc |-> "wad_email", quota |-> qs])
    /\ UNCHANGED <<backend, faulty, started>>

\* WithAccountDetails, no quota found: SetNx of the maximum, which the
\* request then carries as its quota
WithAccountDetailsSetNx(r) ==
    /\ req[r].pc = "wad_setnx"
    /\ LET key == sessionQuotaKey(req[r].cookie)
           qs == Itoa(maxQuota)
       IN  /\ \E db \in SetNx(key, qs, maxQuotaLifespanSeconds) : Apply(db)
           /\ Continue(r, [pc |-> "wad_email", quota |-> qs])
    /\ UNCHANGED <<backend, faulty, started>>

\* WithAccountDetails: the email lookup, then the wrapped handler
WithAccountDetailsEmail(r) ==
    /\ req[r].pc = "wad_email"
    /\ LET key == accountKey(req[r].cookie)
       IN  \E o \in GetOrFetch(key) :
              IF o.res = "hit"
              THEN Continue(r, Next_(req[r].route, req[r].u, req[r].quota))
              ELSE Continue(r, Response(500, "unable to get email"))
    /\ UNCHANGED <<backend, faulty, store, ttl, started>>

----------------------------------------------------------------------------
(* PostCreateRecipe: raw, parsed and summarized, each through GetOrFetch   *)

\* variant of PostCreateRecipeRaw that goes on to the parsed stage on a miss
\* without running the resolver of the raw key
PostCreateRecipeRaw_SkipsFetch(r) ==
    /\ req[r].pc = "pcr_raw"
    /\ LET key == rawKey(req[r].u)
       IN  \E o \in GetOrFetch(key) :
              CASE o.res = "hit" -> Continue(r, [pc |-> "pcr_parsed", val |-> o.val])
                [] o.res = "miss" -> Continue(r, [pc |-> "pcr_parsed", val |-> ""])
                [] o.res = "err" -> Continue(r, Response(400, "unable to fetch raw"))
    /\ UNCHANGED <<backend, faulty, store, ttl, started>>

PostCreateRecipeRaw(r) ==
    /\ req[r].pc = "pcr_raw"
    /\ LET key == rawKey(req[r].u)
       IN  \E o \in GetOrFetch(key) :
              CASE o.res = "hit" -> Continue(r, [pc |-> "pcr_parsed", val |-> o.val])
                [] o.res = "miss" -> Continue(r, [pc |-> "pcr_fetch"])
                [] o.res = "err" -> Continue(r, Response(400, "unable to fetch raw"))
    /\ UNCHANGED <<backend, faulty, store, ttl, started>>

\* variant of PostCreateRecipeFetch that caches the empty contents of a
\* failed fetch
PostCreateRecipeFetch_StoresFailure(r) ==
    /\ req[r].pc = "pcr_fetch"
    /\ LET key == rawKey(req[r].u)
       IN  \E f \in FetchOutcomes, code \in PageStatuses :
              LET contents == PageBody(req[r].u, code)
              IN
              IF f = "ok" /\ FetchRawFromURL(code)
              THEN /\ \E db \in Resolved(key, contents) : Apply(db)
                   /\ Continue(r, [pc |-> "pcr_parsed", val |-> contents])
              ELSE /\ \E db \in Resolved(key, "") : Apply(db)
                   /\ Continue(r, Response(400, "unable to fetch raw"))
    /\ UNCHANGED <<backend, faulty, started>>

\* variant of PostCreateRecipeFetch whose resolver stops with the request
\* context once the client has gone
PostCreateRecipeFetch_Cancellable(r) ==
    /\ req[r].pc = "pcr_fetch"
    /\ LET key == rawKey(req[r].u)
       IN  \E f \in FetchOutcomes, code \in PageStatuses :
              LET contents == PageBody(req[r].u, code)
              IN
              IF req[r].gone # ""
              THEN /\ UNCHANGED <<store, ttl>>
                   /\ Continue(r, Response(400, "context canceled"))
              ELSE IF f = "ok" /\ FetchRawFromURL(code)
              THEN /\ \E db \in Resolved(key, contents) : Apply(db)
                   /\ Continue(r, [pc |-> "pcr_parsed", val |-> contents])
              ELSE /\ UNCHANGED <<store, ttl>>
                   /\ Continue(r, Response(400, "unable to fetch raw"))
    /\ UNCHANGED <<backend, faulty, started>>

\* the resolver of the raw key: unescape, fetch, read; its result is stored
PostCreateRecipeFetch(r) ==
    /\ req[r].pc = "pcr_fetch"
    /\ LET key == rawKey(req[r].u)
       IN  \E f \in FetchOutcomes, code \in PageStatuses :
              LET contents == PageBody(req[r].u, code)
              IN
              IF f = "ok" /\ FetchRawFromURL(code)
              THEN /\ \E db \in Resolved(key, contents) : Apply(db)
                   /\ Continue(r, [pc |-> "pcr_parsed", val |-> contents])
              ELSE /\ UNCHANGED <<store, ttl>>
                   /\ Continue(r, Response(400, "unable to fetch raw"))
    /\ UNCHANGED <<backend, faulty, started>>

PostCreateRecipeParsed(r) ==
    /\ req[r].pc = "pcr_parsed"
    /\ LET key == parsedKey(req[r].u)
       IN  \E o \in GetOrFetch(key) :
              CASE o.res = "hit" -> Continue(r, [pc |-> "pcr_summary", val |-> o.val])
                [] o.res = "miss" -> Continue(r, [pc |-> "pcr_markdown"])
                [] o.res = "err" -> Continue(r, Response(500, "unable to get content from page"))
    /\ UNCHANGED <<backend, faulty, store, ttl, started>>

\* the resolver of the parsed key: CreateMarkdownFromRaw(u, raw)
PostCreateRecipeMarkdown(r) ==
    /\ req[r].pc = "pcr_markdown"
    /\ LET key == parsedKey(req[r].u)
           md == Markdown(req[r].val)
       IN  \E c \in MarkdownOutcomes :
              IF c = "ok"
              THEN /\ \E db \in Resolved(key, md) : Apply(db)
                   /\ Continue(r, [pc |-> "pcr_summary", val |-> md])
              ELSE /\ UNCHANGED <<store, ttl>>
                   /\ Continue(r, Response(500, "unable to get content from page"))
    /\ UNCHANGED <<backend, faulty, started>>

\* json.Marshal of the response struct
SummaryJSON(summary) == "{\"summary\":\"" \o summary \o "\"}"

\* the error of the handler around the error of the resolver, which tells
\* whether the model failed, answered text that is no JSON, or aborted
SummarizeError(m) ==
    "unable to summarize recipe contents: " \o
        (CASE m = "error" -> "unable to get summary prompt response"
           [] m = "unparsable" -> "unable to parse summary prompt response"
           [] m = "abort" -> "model aborted recipe summary")

\* variant of PostCreateRecipeSummary that answers a miss with an error
\* instead of running the resolver
PostCreateRecipeSummary_GivesUp(r) ==
    /\ req[r].pc = "pcr_summary"
    /\ LET key == summarizedKey(req[r].u)
       IN  \E o \in GetOrFetch(key) :
              CASE o.res = "hit" -> Continue(r, Response(200, SummaryJSON(o.val)))
                [] o.res = "miss" -> Continue(r, Response(500, SummarizeError("abort")))
                [] o.res = "err" -> Continue(r, Response(500, "unable to summarize recipe contents: cache"))
    /\ UNCHANGED <<backend, faulty, store, ttl, started>>

PostCreateRecipeSummary(r) ==
    /\ req[r].pc = "pcr_summary"
    /\ LET key == summarizedKey(req[r].u)
       IN  \E o \in GetOrFetch(key) :
              CASE o.res = "hit" -> Continue(r, Response(200, SummaryJSON(o.val)))
                [] o.res = "miss" -> Continue(r, [pc |-> "pcr_summarize"])
                [] o.res = "err" -> Continue(r, Response(500, "unable to summarize recipe contents: cache"))
    /\ UNCHANGED <<backend, faulty, store, ttl, started>>

\* variant of PostCreateRecipeSummarize that stores what the model answered
\* even when the answer is an abort
PostCreateRecipeSummarize_StoresAbort(r) ==
    /\ req[r].pc = "pcr_summarize"
    /\ LET key == summarizedKey(req[r].u)
           summary == SummaryOf(req[r].val)
       IN  \E m \in SummarizeOutcomes :
              IF m = "ok"
              THEN /\ \E db \in Resolved(key, summary) : Apply(db)
                   /\ Continue(r, Response(200, SummaryJSON(summary)) @@ [inv |-> req[r].inv + 1])
              ELSE /\ \E db \in Resolved(key, m) : Apply(db)
                   /\ Continue(r, Response(500, SummarizeError(m))
                                      @@ [inv |-> req[r].inv + 1])
    /\ UNCHANGED <<backend, faulty, started>>

\* the resolver of the summarized key: SummarizeRecipe, ParseSummary, Ok
PostCreateRecipeSummarize(r) ==
    /\ req[r].pc = "pcr_summarize"
    /\ LET key == summarizedKey(req[r].u)
           summary == SummaryOf(req[r].val)
       IN  \E m \in SummarizeOutcomes :
              IF m = "ok"
              THEN /\ \E db \in Resolved(key, summary) : Apply(db)
                   /\ Continue(r, Response(200, SummaryJSON(summary)) @@ [inv |-> req[r].inv + 1])
              ELSE /\ UNCHANGED <<store, ttl>>
                   /\ Continue(r, Response(500, SummarizeError(m))
                                      @@ [inv |-> req[r].inv + 1])
    /\ UNCHANGED <<backend, faulty, started>>

----------------------------------------------------------------------------
(* GetRecipeWineSuggestions *)

\* variant of GetRecipeWineSuggestionsSummary that goes on without a summary
GetRecipeWineSuggestionsSummary_Proceeds(r) ==
    /\ req[r].pc = "grws_summary"
    /\ LET key == summarizedKey(req[r].u)
       IN  \E o \in GetOrFetch(key) :
              Continue(r, [pc |-> "grws_suggestions", val |-> o.val])
    /\ UNCHANGED <<backend, faulty, store, ttl, started>>

\* the summary must be cached already: its resolver always fails
GetRecipeWineSuggestionsSummary(r) ==
    /\ req[r].pc = "grws_summary"
    /\ LET key == summarizedKey(req[r].u)
       IN  \E o \in GetOrFetch(key) :
              IF o.res = "hit"
              THEN Continue(r, [pc |-> "grws_suggestions", val |-> o.val])
              ELSE Continue(r, Response(500, "unable to load summary"))
    /\ UNCHANGED <<backend, faulty, store, ttl, started>>

\* variant of GetRecipeWineSuggestionsLookup that runs the resolver on a hit too
GetRecipeWineSuggestionsLookup_ResolvesHit(r) ==
    /\ req[r].pc = "grws_suggestions"
    /\ LET key == suggestionsKey(req[r].u)
       IN  \E o \in GetOrFetch(key) :
              CASE o.res = "hit" -> Continue(r, [pc |-> "grws_decr", hit |-> TRUE])
                [] o.res = "miss" -> Continue(r, [pc |-> "grws_decr"])
                [] o.res = "err" -> Continue(r, Response(500, "unable to get wine suggestions from the model"))
    /\ UNCHANGED <<backend, faulty, store, ttl, started>>

\* the lookup of the suggestions key; its resolver is the next two steps
GetRecipeWineSuggestionsLookup(r) ==
    /\ req[r].pc = "grws_suggestions"
    /\ LET key == suggestionsKey(req[r].u)
       IN  \E o \in GetOrFetch(key) :
              CASE o.res = "hit" -> Continue(r, Response(200, o.val) @@ [hit |-> TRUE])
                [] o.res = "miss" -> Continue(r, [pc |-> "grws_decr"])
                [] o.res = "err" -> Continue(r, Response(500, "unable to get wine suggestions from the model"))
    /\ UNCHANGED <<backend, faulty, store, ttl, started>>

\* variant of GetRecipeWineSuggestionsDecr that does not charge an account
\* whose quota is used up
GetRecipeWineSuggestionsDecr_Floored(r) ==
    /\ req[r].pc = "grws_decr"
    /\ IF req[r].session # Unset
       THEN \E db \in (IF Quota(store, req[r].session).ok /\ Quota(store, req[r].session).val <= 0
                       THEN {Same}
                       ELSE Decr(sessionQuotaKey(req[r].session))) :
               /\ Apply(db)
               /\ Continue(r, [pc |-> "grws_generate", charges |-> req[r].charges + 1,
                               qd |-> req[r].qd + Charged(db, req[r].session)])
       ELSE /\ UNCHANGED <<store, ttl>>
            /\ Continue(r, Response(500, "unable to get wine suggestions from the model"))
    /\ UNCHANGED <<backend, faulty, started>>

\* the resolver of the suggestions key, first statement: the quota of the
\* session account is decremented, the result of Decr is dropped
GetRecipeWineSuggestionsDecr(r) ==
    /\ req[r].pc = "grws_decr"
    /\ IF req[r].session # Unset
       THEN \E db \in Decr(sessionQuotaKey(req[r].session)) :
               /\ Apply(db)
               /\ Continue(r, [pc |-> "grws_generate", charges |-> req[r].charges + 1,
                               qd |-> req[r].qd + Charged(db, req[r].session)])
       ELSE /\ UNCHANGED <<store, ttl>>
            /\ Continue(r, Response(500, "unable to get wine suggestions from the model"))
    /\ UNCHANGED <<backend, faulty, started>>

\* the resolver of the suggestions key, last statement: the model call,
\* whose answer is stored and returned
GetRecipeWineSuggestionsGenerate(r) ==
    /\ req[r].pc = "grws_generate"
    /\ LET key == suggestionsKey(req[r].u)
       IN  \E m \in GenerateOutcomes :
              IF m = "ok"
              THEN \E answer \in SuggestionsOf(req[r].val) :
                      /\ \E db \in Resolved(key, answer) : Apply(db)
                      /\ Continue(r, Response(200, answer) @@ [inv |-> req[r].inv + 1])
              ELSE /\ UNCHANGED <<store, ttl>>
                   /\ Continue(r, Response(500, "unable to get wine suggestions from the model")
                                      @@ [inv |-> req[r].inv + 1])
    /\ UNCHANGED <<backend, faulty, started>>

----------------------------------------------------------------------------
(* GetRecipeWineSuggestionsV2 and the tools of the agent *)

\* wa.cache.Get(k): any error, not only a missing key, leads to the model
GetRecipeWineSuggestionsV2Get(r) ==
    /\ req[r].pc = "v2_get"
    /\ \E o \in Get(getCacheKeyForInput(req[r].u)) :
          IF o.res = "hit"
          THEN Continue(r, Response(200, o.val) @@ [hit |-> TRUE])
          ELSE Continue(r, [pc |-> "v2_agent", inv |-> req[r].inv + 1])
    /\ UNCHANGED <<backend, faulty, store, ttl, started>>

\* the identifier the prompt tells the agent to use: the URL, or the hash
AgentId(input) ==
    IF recentSuggestionRx(input) # "" THEN recentSuggestionRx(input) ELSE HashContent(input)

\* the agent calls FetchSite with the URL of the input
AgentFetchSite(r) ==
    /\ req[r].pc = "v2_agent"
    /\ req[r].calls < MaxToolCalls
    /\ recentSuggestionRx(req[r].u) # ""
    /\ Continue(r, [pc |-> "fs_raw", calls |-> req[r].calls + 1])
    /\ UNCHANGED <<backend, faulty, store, ttl, started>>

\* FetchSite: GetOrFetch of the raw key
FetchSiteRaw(r) ==
    /\ req[r].pc = "fs_raw"
    /\ \E o \in GetOrFetch(rawKey(recentSuggestionRx(req[r].u))) :
          CASE o.res = "hit" -> Continue(r, [pc |-> "fs_parsed", val |-> o.val])
            [] o.res = "miss" -> Continue(r, [pc |-> "fs_fetch"])
            [] o.res = "err" -> Continue(r, [pc |-> "v2_agent"])
    /\ UNCHANGED <<backend, faulty, store, ttl, started>>

\* FetchSite: the resolver of the raw key
FetchSiteFetch(r) ==
    /\ req[r].pc = "fs_fetch"
    /\ LET url == recentSuggestionRx(req[r].u)
       IN  \E f \in FetchOutcomes \ {"unescape"}, code \in PageStatuses :
              IF f = "ok" /\ FetchRawFromURL(code)
              THEN /\ \E db \in Resolved(rawKey(url), PageBody(url, code)) : Apply(db)
                   /\ Continue(r, [pc |-> "fs_parsed", val |-> PageBody(url, code)])
              ELSE /\ UNCHANGED <<store, ttl>>
                   /\ Continue(r, [pc |-> "v2_agent"])
    /\ UNCHANGED <<backend, faulty, started>>

\* FetchSite: GetOrFetch of the parsed key; the text goes back to the agent
FetchSiteParsed(r) ==
    /\ req[r].pc = "fs_parsed"
    /\ \E o \in GetOrFetch(parsedKey(recentSuggestionRx(req[r].u))) :
          CASE o.res = "hit" -> Continue(r, [pc |-> "v2_agent", val |-> ""])
            [] o.res = "miss" -> Continue(r, [pc |-> "fs_markdown"])
            [] o.res = "err" -> Continue(r, [pc |-> "v2_agent", val |-> ""])
    /\ UNCHANGED <<backend, faulty, store, ttl, started>>

\* FetchSite: the resolver of the parsed key
FetchSiteMarkdown(r) ==
    /\ req[r].pc = "fs_markdown"
    /\ LET url == recentSuggestionRx(req[r].u)
       IN  \E c \in MarkdownOutcomes :
              IF c = "ok"
              THEN /\ \E db \in Resolved(parsedKey(url), Markdown(req[r].val)) : Apply(db)
                   /\ Continue(r, [pc |-> "v2_agent", val |-> ""])
              ELSE /\ UNCHANGED <<store, ttl>>
                   /\ Continue(r, [pc |-> "v2_agent", val |-> ""])
    /\ UNCHANGED <<backend, faulty, started>>

\* the agent calls CacheGet on the summarized key: a read that changes nothing
AgentCacheGet(r) ==
    /\ req[r].pc = "v2_agent"
    /\ req[r].calls < MaxToolCalls
    /\ \E o \in Get(summarizedKey(AgentId(req[r].u))) :
          Continue(r, [calls |-> req[r].calls + 1])
    /\ UNCHANGED <<backend, faulty, store, ttl, started>>

\* the agent calls CacheWrite with the summary it made: cache.Set(key, value)
AgentCacheWrite(r) ==
    /\ req[r].pc = "v2_agent"
    /\ req[r].calls < MaxToolCalls
    /\ LET id == AgentId(req[r].u)
       IN  \E db \in Set(summarizedKey(id), "summary of " \o id) : Apply(db)
    /\ Continue(r, [calls |-> req[r].calls + 1])
    /\ UNCHANGED <<backend, faulty, started>>

\* keys and values an agent can pass to CacheWrite: the tool takes any
\* non-empty key, the one the prompt names or another
ToolKeys(input) ==
    {summarizedKey(AgentId(input)), rawKey(AgentId(input))}
        \cup {sessionQuotaKey(a) : a \in Accounts}
ToolValues(input) == {"summary of " \o AgentId(input), Itoa(maxQuota)}

\* the CacheWrite tool as the server registers it: cache.Set(key, value) for
\* whatever key and value the call carries
CacheWriteTool(r) ==
    /\ req[r].pc = "v2_agent"
    /\ req[r].calls < MaxToolCalls
    /\ \E key \in ToolKeys(req[r].u), value \in ToolValues(req[r].u) :
          \E db \in Set(key, value) : Apply(db)
    /\ Continue(r, [calls |-> req[r].calls + 1])
    /\ UNCHANGED <<backend, faulty, started>>

\* the run ends: GeneratePairingSuggestionsV2 returns, ParseSuggestionsV2
AgentAnswer(r) ==
    /\ req[r].pc = "v2_agent"
    /\ \E m \in AgentOutcomes :
          IF m = "ok"
          THEN \E answer \in AgentAnswers :
                  Continue(r, [pc |-> "v2_set", val |-> answer, calls |-> 0])
          ELSE Continue(r, Response(500, "error generating suggestions") @@ [calls |-> 0])
    /\ UNCHANGED <<backend, faulty, store, ttl, started>>

\* wa.cache.Set(k, response), an error is logged
GetRecipeWineSuggestionsV2Set(r) ==
    /\ req[r].pc = "v2_set"
    /\ \E db \in Set(getCacheKeyForInput(req[r].u), req[r].val) : Apply(db)
    /\ Continue(r, [pc |-> "v2_decr"])
    /\ UNCHANGED <<backend, faulty, started>>

\* wa.cache.Decr of the session account's quota, then the response
GetRecipeWineSuggestionsV2Decr(r) ==
    /\ req[r].pc = "v2_decr"
    /\ IF req[r].session # Unset
       THEN \E db \in Decr(sessionQuotaKey(req[r].session)) :
               /\ Apply(db)
               /\ Continue(r, Response(200, req[r].val)
                                  @@ [charges |-> req[r].charges + 1,
                                      qd |-> req[r].qd + Charged(db, req[r].session)])
       ELSE /\ UNCHANGED <<store, ttl>>
            /\ Continue(r, Response(200, req[r].val))
    /\ UNCHANGED <<backend, faulty, started>>

----------------------------------------------------------------------------
(* GetRecentSuggestions *)

\* strings.Replace(s, "*", "", 1): s without its first asterisk
ReplaceFirstStar(s) ==
    LET stars == {i \in 1..Len(s) : SubSeq(s, i, i) = "*"}
    IN  IF stars = {} THEN s
        ELSE LET i == CHOOSE a \in stars : \A b \in stars : a <= b
             IN  SubSeq(s, 1, i - 1) \o SubSeq(s, i + 1, Len(s))

\* variant of memoryGetKeys that searches for the pattern with its asterisk
memoryGetKeys_KeepsStar(pattern) ==
    {k \in DOMAIN store : HasPrefix(k, pattern)}

\* memory.GetKeys: the keys that start with the pattern less its first asterisk
memoryGetKeys(pattern) ==
    LET search == ReplaceFirstStar(pattern)
    IN  {k \in DOMAIN store : HasPrefix(k, search)}

\* the glob match of the KEYS command: * stands for any run of characters,
\* ? for any one character, every other character of the patterns used here
\* for itself
RECURSIVE globMatch(_, _)
globMatch(pattern, s) ==
    IF pattern = "" THEN s = ""
    ELSE LET c == SubSeq(pattern, 1, 1)
             rest == SubSeq(pattern, 2, Len(pattern))
         IN  IF c = "*"
             THEN \E i \in 0..Len(s) : globMatch(rest, SubSeq(s, i + 1, Len(s)))
             ELSE /\ s # ""
                  /\ c = "?" \/ c = SubSeq(s, 1, 1)
                  /\ globMatch(rest, SubSeq(s, 2, Len(s)))

\* redis.GetKeys: conn.Keys(ctx, pattern), the keys the glob matches
redisGetKeys(pattern) ==
    {k \in DOMAIN store : globMatch(pattern, k)}

\* Cacher.GetKeys: the keys of the pattern, or an error of the networked store
GetKeys(pattern) ==
    IF backend = "memory"
    THEN {[res |-> "hit", keys |-> memoryGetKeys(pattern)]}
    ELSE {[res |-> "hit", keys |-> redisGetKeys(pattern)]}
            \cup {[res |-> "err", keys |-> {}] : e \in BackendErrors}

\* the orders in which the keys can stand after the iteration over the map
\* or the KEYS reply, and rand.Shuffle
Shuffle(keys) ==
    {o \in [1..Cardinality(keys) -> keys] : \A i, j \in DOMAIN o : o[i] = o[j] => i = j}

RECURSIVE jsonStrings(_)
jsonStrings(elems) ==
    IF elems = <<>> THEN ""
    ELSE "\"" \o Head(elems) \o "\""
            \o (IF Tail(elems) = <<>> THEN "" ELSE "," \o jsonStrings(Tail(elems)))

\* json.Marshal of a []string: a nil slice encodes as null
jsonMarshal(isNil, elems) ==
    IF isNil THEN "null" ELSE "[" \o jsonStrings(elems) \o "]"

\* the whole handler: scan, FindString on every key, shuffle, the first
\* sampleSize of them marshalled.  urls stays nil when no key was appended
GetRecentSuggestions(r) ==
    /\ req[r].pc = "recent"
    /\ \E o \in GetKeys("recipes:suggestions-json:*") :
          IF o.res = "err"
          THEN Continue(r, Response(500, "unable to scan for previous recipes"))
          ELSE \E keys \in Shuffle(o.keys) :
                  LET urls == [i \in DOMAIN keys |-> recentSuggestionRx(keys[i])]
                      count == IF Len(urls) < sampleSize THEN Len(urls) ELSE sampleSize
                      out == SubSeq(urls, 1, count)
                  IN  Continue(r, Response(200, jsonMarshal(o.keys = {}, out))
                                      @@ [list |-> out])
    /\ UNCHANGED <<backend, faulty, store, ttl, started>>

----------------------------------------------------------------------------
(* PostOauthResponse *)

\* the checks before the writes: the form, the CSRF double submit, the
\* Google certificates.  The error of jwt.ParseWithClaims is dropped: a token
\* without claims ends in a nil dereference, a token with claims goes on
\* whether or not its signature verified
Verified(cred) ==
    CASE cred = "badform" -> Response(400, "unable to parse request form")
      [] cred = "nocsrf" -> Response(400, "expected csrf cookies")
      [] cred = "nocsrfcookie" -> Response(400, "no csrf cookie set")
      [] cred = "mismatch" -> Response(400, "failed to verify double submit cookie")
      [] cred = "nocerts" -> Response(400, "unable to fetch latest Google certs")
      [] cred = "malformed" -> Response(500, "panic: nil pointer dereference")
      [] cred \in {"badsignature", "valid"} -> [pc |-> "oauth_sessions"]

\* wa.cache.Set(accounts:<sub>, email)
PostOauthResponseAccount(r) ==
    /\ req[r].pc = "oauth_accounts"
    /\ LET v == Verified(req[r].cred)
           key == accountKey(req[r].sub)
       IN  IF v.pc = "done"
           THEN /\ UNCHANGED <<store, ttl>>
                /\ Continue(r, v)
           ELSE /\ \E db \in Set(key, Emails[req[r].sub]) : Apply(db)
                /\ Continue(r, v)
    /\ UNCHANGED <<backend, faulty, started>>

\* wa.cache.SetEx(sessions:<sub>, "", 7 days)
PostOauthResponseSession(r) ==
    /\ req[r].pc = "oauth_sessions"
    /\ LET key == sessionKey(req[r].sub)
       IN  /\ \E db \in SetEx(key, "", sessionLifespanSeconds) : Apply(db)
           /\ Continue(r, [pc |-> "oauth_quota"])
    /\ UNCHANGED <<backend, faulty, started>>

\* variant of PostOauthResponseQuota that writes the maximum with Set
PostOauthResponseQuota_Resets(r) ==
    /\ req[r].pc = "oauth_quota"
    /\ LET key == sessionQuotaKey(req[r].sub)
       IN  /\ \E db \in Set(key, Itoa(maxQuota)) : Apply(db)
           /\ Continue(r, Response(302, "/") @@ [setcookie |-> req[r].sub])
    /\ UNCHANGED <<backend, faulty, started>>

\* wa.cache.SetNx(quotas:<sub>, maxQuota, lifespan), the session cookie and
\* the redirect
PostOauthResponseQuota(r) ==
    /\ req[r].pc = "oauth_quota"
    /\ LET key == sessionQuotaKey(req[r].sub)
       IN  /\ \E db \in SetNx(key, Itoa(maxQuota), maxQuotaLifespanSeconds) : Apply(db)
           /\ Continue(r, Response(302, "/") @@ [setcookie |-> req[r].sub])
    /\ UNCHANGED <<backend, faulty, started>>

----------------------------------------------------------------------------
(* DeleteSession *)

\* variant of DeleteSession that removes the account record with the session
DeleteSession_DropsAccount(r) ==
    /\ req[r].pc = "logout"
    /\ \E d \in Delete(sessionKey(req[r].session)) :
          /\ store' = Drop(d.db.s, accountKey(req[r].session))
          /\ ttl' = Drop(d.db.t, accountKey(req[r].session))
          /\ Continue(r, IF d.err THEN Response(500, "unable to destroy session")
                                  ELSE Response(302, "/"))
    /\ UNCHANGED <<backend, faulty, started>>

\* GET /logout: the session record of the account of the context is deleted,
\* the cookie cleared and the browser sent home; a failed deletion has
\* written 500 before the redirect
DeleteSession(r) ==
    /\ req[r].pc = "logout"
    /\ \E d \in Delete(sessionKey(req[r].session)) :
          /\ Apply(d.db)
          /\ Continue(r, IF d.err THEN Response(500, "unable to destroy session")
                                  ELSE Response(302, "/"))
    /\ UNCHANGED <<backend, faulty, started>>

----------------------------------------------------------------------------
(* The environment *)

\* an entry written with a lifespan expires
Expire(key) ==
    /\ key \in DOMAIN store
    /\ ttl[key] > 0
    /\ store' = Drop(store, key)
    /\ ttl' = Drop(ttl, key)
    /\ UNCHANGED <<backend, faulty, req, started>>

\* the steps in which a request is inside a resolver of PostCreateRecipe
Callbacks == {"pcr_fetch", "pcr_markdown", "pcr_summarize"}

\* the client of a request whose resolver runs goes away; the handlers run
\* on context.Background() and the store calls on context.TODO(), so nothing
\* of the request changes but that its response has no reader
Abandon(r) ==
    /\ req[r].pc \in Callbacks
    /\ req[r].gone = ""
    /\ req' = [req EXCEPT ![r].gone = req[r].pc]
    /\ UNCHANGED <<backend, faulty, store, ttl, started>>

\* the response has gone out; the slot serves the next request
Finish(r) ==
    /\ req[r].pc = "done"
    /\ req' = [req EXCEPT ![r] = Idle]
    /\ UNCHANGED <<backend, faulty, store, ttl, started>>

----------------------------------------------------------------------------
(* The specification *)

\* a cache nothing was written to
Fresh == DB([k \in {} |-> ""], [k \in {} |-> 0])

\* the cache after account a1 logged in, had LongUrl summarized and was
\* charged for all but one unit of its quota
Used ==
    LET a == "a1"
        raw == RawContent(LongUrl)
        md == Markdown(raw)
        entries ==
            {<<accountKey(a), Emails[a], 0>>,
             <<sessionKey(a), "", IF backend = "memory" THEN 0 ELSE sessionLifespanSeconds>>,
             <<sessionQuotaKey(a), Itoa(1), maxQuotaLifespanSeconds>>,
             <<rawKey(LongUrl), raw, 0>>,
             <<parsedKey(LongUrl), md, 0>>,
             <<summarizedKey(LongUrl), SummaryOf(md), 0>>}
    IN  DB([k \in {e[1] : e \in entries} |-> (CHOOSE e \in entries : e[1] = k)[2]],
           [k \in {e[1] : e \in entries} |-> (CHOOSE e \in entries : e[1] = k)[3]])

\* NewWebapp with WithMemoryCache or WithRedisCache; no request in flight.
\* The runs start from a fresh cache or from the cache earlier requests left
Init ==
    /\ backend \in {"memory", "redis"}
    /\ faulty = FALSE
    /\ \E db \in {Fresh, Used} : store = db.s /\ ttl = db.t
    /\ req = [r \in Requests |-> Idle]
    /\ started = 0

Keys ==
    {sessionQuotaKey(a) : a \in Accounts} \cup {accountKey(a) : a \in Accounts}
        \cup {sessionKey(a) : a \in Accounts}
        \cup {rawKey(u) : u \in Urls} \cup {parsedKey(u) : u \in Urls}
        \cup {summarizedKey(u) : u \in Urls} \cup {suggestionsKey(u) : u \in Urls}
        \cup {summarizedKey(HashContent(RecipeText)), getCacheKeyForInput(RecipeText)}

Next ==
    \/ \E r \in Requests : Start(r)
    \/ \E r \in Requests : WithAccountDetailsQuota(r)
    \/ \E r \in Requests : WithAccountDetailsSetNx(r)
    \/ \E r \in Requests : WithAccountDetailsEmail(r)
    \/ \E r \in Requests : PostCreateRecipeRaw(r)
    \/ \E r \in Requests : PostCreateRecipeFetch(r)
    \/ \E r \in Requests : PostCreateRecipeParsed(r)
    \/ \E r \in Requests : PostCreateRecipeMarkdown(r)
    \/ \E r \in Requests : PostCreateRecipeSummary(r)
    \/ \E r \in Requests : PostCreateRecipeSummarize(r)
    \/ \E r \in Requests : GetRecipeWineSuggestionsSummary(r)
    \/ \E r \in Requests : GetRecipeWineSuggestionsLookup(r)
    \/ \E r \in Requests : GetRecipeWineSuggestionsDecr(r)
    \/ \E r \in Requests : GetRecipeWineSuggestionsGenerate(r)
    \/ \E r \in Requests : GetRecipeWineSuggestionsV2Get(r)
    \/ \E r \in Requests : AgentFetchSite(r)
    \/ \E r \in Requests : FetchSiteRaw(r)
    \/ \E r \in Requests : FetchSiteFetch(r)
    \/ \E r \in Requests : FetchSiteParsed(r)
    \/ \E r \in Requests : FetchSiteMarkdown(r)
    \/ \E r \in Requests : AgentCacheGet(r)
    \/ \E r \in Requests : AgentCacheWrite(r)
    \/ \E r \in Requests : AgentAnswer(r)
    \/ \E r \in Requests : GetRecipeWineSuggestionsV2Set(r)
    \/ \E r \in Requests : GetRecipeWineSuggestionsV2Decr(r)
    \/ \E r \in Requests : GetRecentSuggestions(r)
    \/ \E r \in Requests : DeleteSession(r)
    \/ \E r \in Requests : PostOauthResponseAccount(r)
    \/ \E r \in Requests : PostOauthResponseSession(r)
    \/ \E r \in Requests : PostOauthResponseQuota(r)
    \/ \E r \in Requests : Finish(r)
    \/ \E key \in Keys : Expire(key)

Spec == Init /\ [][Next]_vars

\* the cache after account a1 logged in: PostOauthResponse wrote its three keys
LoggedIn ==
    LET a == "a1"
        entries ==
            {<<accountKey(a), Emails[a], 0>>,
             <<sessionKey(a), "", IF backend = "memory" THEN 0 ELSE sessionLifespanSeconds>>,
             <<sessionQuotaKey(a), Itoa(maxQuota), maxQuotaLifespanSeconds>>}
    IN  DB([k \in {e[1] : e \in entries} |-> (CHOOSE e \in entries : e[1] = k)[2]],
           [k \in {e[1] : e \in entries} |-> (CHOOSE e \in entries : e[1] = k)[3]])

\* the recipe requests of a logged-in account: POST /recipes/summary/{url}
\* alone, one request after or beside the other
RecipeInit ==
    /\ backend \in {"memory", "redis"}
    /\ faulty = FALSE
    /\ store = LoggedIn.s /\ ttl = LoggedIn.t
    /\ req = [r \in Requests |-> Idle]
    /\ started = 0

RecipeNext ==
    \/ \E r \in Requests : Arrive(r, {"summary"}, {})
    \/ \E r \in Requests : WithAccountDetailsQuota(r)
    \/ \E r \in Requests : WithAccountDetailsEmail(r)
    \/ \E r \in Requests : PostCreateRecipeRaw(r)
    \/ \E r \in Requests : PostCreateRecipeFetch(r)
    \/ \E r \in Requests : PostCreateRecipeParsed(r)
    \/ \E r \in Requests : PostCreateRecipeMarkdown(r)
    \/ \E r \in Requests : PostCreateRecipeSummary(r)
    \/ \E r \in Requests : PostCreateRecipeSummarize(r)
    \/ \E r \in Requests : Finish(r)

RecipeSpec == RecipeInit /\ [][RecipeNext]_vars

\* the steps of the goroutine that serves request r on POST /recipes/summary
Serve(r) ==
    \/ WithAccountDetailsQuota(r)
    \/ WithAccountDetailsEmail(r)
    \/ PostCreateRecipeRaw(r)
    \/ PostCreateRecipeFetch(r)
    \/ PostCreateRecipeParsed(r)
    \/ PostCreateRecipeMarkdown(r)
    \/ PostCreateRecipeSummary(r)
    \/ PostCreateRecipeSummarize(r)
    \/ Finish(r)

\* POST /recipes/summary with clients that may go away while they wait; the
\* runtime keeps scheduling the goroutine of every request
AbandonNext ==
    \/ RecipeNext
    \/ \E r \in Requests : Abandon(r)

AbandonSpec ==
    RecipeInit /\ [][AbandonNext]_vars /\ \A r \in Requests : WF_vars(Serve(r))

\* ids of recipes whose suggestions earlier requests cached: URLs through
\* either suggestions route, and a recipe text through suggestionsV2
RecentUrls == Urls \cup {"http://y.test/roast"}
RecentKeys == {suggestionsKey(u) : u \in RecentUrls} \cup {getCacheKeyForInput(RecipeText)}

\* the cache of a logged-in account with the suggestions of the keys cached
Suggested(keys) ==
    DB([k \in DOMAIN LoggedIn.s \cup keys |->
            IF k \in keys THEN "[cabernet]" ELSE LoggedIn.s[k]],
       [k \in DOMAIN LoggedIn.s \cup keys |->
            IF k \in keys THEN 0 ELSE LoggedIn.t[k]])

\* GET /recipes/suggestions/recent alone, over caches with none to all of
\* the suggestions cached
RecentInit ==
    /\ backend \in {"memory", "redis"}
    /\ faulty = FALSE
    /\ \E keys \in SUBSET RecentKeys :
          store = Suggested(keys).s /\ ttl = Suggested(keys).t
    /\ req = [r \in Requests |-> Idle]
    /\ started = 0

RecentNext ==
    \/ \E r \in Requests : Arrive(r, {"recent"}, {})
    \/ \E r \in Requests : GetRecentSuggestions(r)
    \/ \E r \in Requests : Finish(r)

RecentSpec == RecentInit /\ [][RecentNext]_vars

\* request bodies of the suggestionsV2 route: a URL, recipe texts, and
\* recipe texts that quote the page they come from
Texts ==
    Bodies \cup {"pot roast with carrots", "stew from https://x.test/stew",
                 "see https://x.test/stew"}

\* POST /recipes/suggestions alone, up to the lookup of the key derived from
\* the body
KeyInit ==
    /\ backend \in {"memory", "redis"}
    /\ faulty = FALSE
    /\ store = LoggedIn.s /\ ttl = LoggedIn.t
    /\ req = [r \in Requests |-> Idle]
    /\ started = 0

KeyNext ==
    \/ \E r \in Requests : Arrive(r, {"suggestionsV2"}, Texts)
    \/ \E r \in Requests : WithAccountDetailsQuota(r)
    \/ \E r \in Requests : WithAccountDetailsEmail(r)
    \/ \E r \in Requests : GetRecipeWineSuggestionsV2Get(r)
    \/ \E r \in Requests : Finish(r)

KeySpec == KeyInit /\ [][KeyNext]_vars

\* the staged flow alone, POST /recipes/summary and GET /recipes/suggestions,
\* over a store whose writes succeed and over one whose writes can fail
StagedInit ==
    /\ backend \in {"memory", "redis"}
    /\ faulty \in BOOLEAN
    /\ store = LoggedIn.s /\ ttl = LoggedIn.t
    /\ req = [r \in Requests |-> Idle]
    /\ started = 0

StagedNext ==
    \/ \E r \in Requests : Arrive(r, {"summary", "suggestions"}, {})
    \/ \E r \in Requests : WithAccountDetailsQuota(r)
    \/ \E r \in Requests : WithAccountDetailsEmail(r)
    \/ \E r \in Requests : PostCreateRecipeRaw(r)
    \/ \E r \in Requests : PostCreateRecipeFetch(r)
    \/ \E r \in Requests : PostCreateRecipeParsed(r)
    \/ \E r \in Requests : PostCreateRecipeMarkdown(r)
    \/ \E r \in Requests : PostCreateRecipeSummary(r)
    \/ \E r \in Requests : PostCreateRecipeSummarize(r)
    \/ \E r \in Requests : GetRecipeWineSuggestionsSummary(r)
    \/ \E r \in Requests : GetRecipeWineSuggestionsLookup(r)
    \/ \E r \in Requests : GetRecipeWineSuggestionsDecr(r)
    \/ \E r \in Requests : GetRecipeWineSuggestionsGenerate(r)
    \/ \E r \in Requests : Finish(r)

StagedSpec == StagedInit /\ [][StagedNext]_vars

\* POST /recipes/suggestions alone with an agent that calls the tools with
\* arguments of its own choice
ToolInit ==
    /\ backend \in {"memory", "redis"}
    /\ faulty = FALSE
    /\ store = LoggedIn.s /\ ttl = LoggedIn.t
    /\ req = [r \in Requests |-> Idle]
    /\ started = 0

ToolNext ==
    \/ \E r \in Requests : Arrive(r, {"suggestionsV2"}, Bodies)
    \/ \E r \in Requests : WithAccountDetailsQuota(r)
    \/ \E r \in Requests : WithAccountDetailsEmail(r)
    \/ \E r \in Requests : GetRecipeWineSuggestionsV2Get(r)
    \/ \E r \in Requests : AgentFetchSite(r)
    \/ \E r \in Requests : FetchSiteRaw(r)
    \/ \E r \in Requests : FetchSiteFetch(r)
    \/ \E r \in Requests : FetchSiteParsed(r)
    \/ \E r \in Requests : FetchSiteMarkdown(r)
    \/ \E r \in Requests : AgentCacheGet(r)
    \/ \E r \in Requests : CacheWriteTool(r)
    \/ \E r \in Requests : AgentAnswer(r)
    \/ \E r \in Requests : GetRecipeWineSuggestionsV2Set(r)
    \/ \E r \in Requests : GetRecipeWineSuggestionsV2Decr(r)
    \/ \E r \in Requests : Finish(r)

ToolSpec == ToolInit /\ [][ToolNext]_vars

\* the whole program serving one request at a time: a request is taken up
\* only when no other is in flight; the agent calls the tools with arguments
\* of its own choice
SeqArrive(r) ==
    /\ \A q \in Requests \ {r} : req[q].pc = "idle"
    /\ Start(r)

SeqNext ==
    \/ \E r \in Requests : SeqArrive(r)
    \/ \E r \in Requests : WithAccountDetailsQuota(r)
    \/ \E r \in Requests : WithAccountDetailsSetNx(r)
    \/ \E r \in Requests : WithAccountDetailsEmail(r)
    \/ \E r \in Requests : PostCreateRecipeRaw(r)
    \/ \E r \in Requests : PostCreateRecipeFetch(r)
    \/ \E r \in Requests : PostCreateRecipeParsed(r)
    \/ \E r \in Requests : PostCreateRecipeMarkdown(r)
    \/ \E r \in Requests : PostCreateRecipeSummary(r)
    \/ \E r \in Requests : PostCreateRecipeSummarize(r)
    \/ \E r \in Requests : GetRecipeWineSuggestionsSummary(r)
    \/ \E r \in Requests : GetRecipeWineSuggestionsLookup(r)
    \/ \E r \in Requests : GetRecipeWineSuggestionsDecr(r)
    \/ \E r \in Requests : GetRecipeWineSuggestionsGenerate(r)
    \/ \E r \in Requests : GetRecipeWineSuggestionsV2Get(r)
    \/ \E r \in Requests : AgentFetchSite(r)
    \/ \E r \in Requests : FetchSiteRaw(r)
    \/ \E r \in Requests : FetchSiteFetch(r)
    \/ \E r \in Requests : FetchSiteParsed(r)
    \/ \E r \in Requests : FetchSiteMarkdown(r)
    \/ \E r \in Requests : AgentCacheGet(r)
    \/ \E r \in Requests : CacheWriteTool(r)
    \/ \E r \in Requests : AgentAnswer(r)
    \/ \E r \in Requests : GetRecipeWineSuggestionsV2Set(r)
    \/ \E r \in Requests : GetRecipeWineSuggestionsV2Decr(r)
    \/ \E r \in Requests : GetRecentSuggestions(r)
    \/ \E r \in Requests : DeleteSession(r)
    \/ \E r \in Requests : PostOauthResponseAccount(r)
    \/ \E r \in Requests : PostOauthResponseSession(r)
    \/ \E r \in Requests : PostOauthResponseQuota(r)
    \/ \E r \in Requests : Finish(r)
    \/ \E key \in Keys : Expire(key)

SeqSpec == Init /\ [][SeqNext]_vars

\* the same program with a networked store whose commands can fail
FaultInit ==
    /\ backend \in {"memory", "redis"}
    /\ faulty = TRUE
    /\ \E db \in {Fresh, Used} : store = db.s /\ ttl = db.t
    /\ req = [r \in Requests |-> Idle]
    /\ started = 0

FaultSpec == FaultInit /\ [][Next]_vars

----------------------------------------------------------------------------
(* Properties *)

SuggestionRoutes == {"suggestions", "suggestionsV2"}

\* the key request record q is about to look up with GetOrFetch, "" if none
ResolveKey(q) ==
    CASE q.pc = "wad_quota" /\ q.cookie # NoCookie -> sessionQuotaKey(q.cookie)
      [] q.pc = "wad_email" -> accountKey(q.cookie)
      [] q.pc = "pcr_raw" -> rawKey(q.u)
      [] q.pc = "pcr_parsed" -> parsedKey(q.u)
      [] q.pc = "pcr_summary" -> summarizedKey(q.u)
      [] q.pc = "grws_summary" -> summarizedKey(q.u)
      [] q.pc = "grws_suggestions" -> suggestionsKey(q.u)
      [] q.pc = "fs_raw" -> rawKey(recentSuggestionRx(q.u))
      [] q.pc = "fs_parsed" -> parsedKey(recentSuggestionRx(q.u))
      [] OTHER -> ""

\* the key whose resolver request record q is about to run, "" if none
ComputeKey(q) ==
    CASE q.pc = "pcr_fetch" -> rawKey(q.u)
      [] q.pc = "pcr_markdown" -> parsedKey(q.u)
      [] q.pc = "pcr_summarize" -> summarizedKey(q.u)
      [] q.pc = "grws_generate" -> suggestionsKey(q.u)
      [] q.pc = "fs_fetch" -> rawKey(recentSuggestionRx(q.u))
      [] OTHER -> ""

\* where a lookup that finds nothing leads: into the resolver of the key
MissPc(pc) ==
    CASE pc = "wad_quota" -> "wad_setnx"
      [] pc = "pcr_raw" -> "pcr_fetch"
      [] pc = "pcr_parsed" -> "pcr_markdown"
      [] pc = "pcr_summary" -> "pcr_summarize"
      [] pc = "grws_suggestions" -> "grws_decr"
      [] pc = "fs_raw" -> "fs_fetch"
      [] pc = "fs_parsed" -> "fs_markdown"
      [] OTHER -> "done"

\* the lookup step from q to q2 handed the stored value v to its caller
ReturnedFromCache(q, q2, v) ==
    CASE q.pc = "wad_quota" -> q2.pc = "wad_email" /\ q2.quota = v
      [] q.pc = "wad_email" -> q2.body # "unable to get email"
      [] q.pc = "pcr_raw" -> q2.pc = "pcr_parsed" /\ q2.val = v
      [] q.pc = "pcr_parsed" -> q2.pc = "pcr_summary" /\ q2.val = v
      [] q.pc = "pcr_summary" -> q2.pc = "done" /\ q2.status = 200 /\ q2.body = SummaryJSON(v)
      [] q.pc = "grws_summary" -> q2.pc = "grws_suggestions" /\ q2.val = v
      [] q.pc = "grws_suggestions" -> q2.pc = "done" /\ q2.status = 200 /\ q2.body = v
      [] q.pc = "fs_raw" -> q2.pc = "fs_parsed" /\ q2.val = v
      [] q.pc = "fs_parsed" -> q2.pc = "v2_agent"

\* the recipe requests on the in-memory store with the accesses to its map
\* told apart from the steps that complete them.  memory has no lock: a
\* goroutine enters m.cache[key] of memory.Get or the assignment
\* m.cache[key] = val whatever the other goroutines are doing
memoryGetEnter(r) ==
    /\ backend = "memory"
    /\ ResolveKey(req[r]) # "" /\ req[r].access = ""
    /\ req' = [req EXCEPT ![r].access = "read"]
    /\ UNCHANGED <<backend, faulty, store, ttl, started>>

\* onMiss returned a value and the goroutine enters m.cache[key] = val
memoryStoreEnter(r) ==
    /\ backend = "memory"
    /\ ComputeKey(req[r]) # "" /\ req[r].access = ""
    /\ req' = [req EXCEPT ![r].access = "write"]
    /\ UNCHANGED <<backend, faulty, store, ttl, started>>

\* two goroutines are in the map at once and one of them writes
Racing(r, q) ==
    /\ r # q /\ req[r].access # "" /\ req[q].access # ""
    /\ "write" \in {req[r].access, req[q].access}

\* the data race is undefined behaviour; besides going on with either order
\* of the two accesses, the runtime can detect it and end the process
memoryFatal ==
    /\ \E r, q \in Requests : Racing(r, q)
    /\ req' = [r \in Requests |->
                  Merge(req[r], [pc |-> "done", status |-> 0, access |-> "",
                                 body |-> "fatal error: concurrent map read and map write"])]
    /\ started' = MaxRequests
    /\ UNCHANGED <<backend, faulty, store, ttl>>

\* the step that completes a write the goroutine has entered is one whose
\* resolver succeeded
Stored(r) ==
    req[r].access = "write" => (req'[r].pc # "done" \/ req'[r].status = 200)

RaceInit ==
    /\ backend = "memory"
    /\ faulty = FALSE
    /\ store = LoggedIn.s /\ ttl = LoggedIn.t
    /\ req = [r \in Requests |-> Idle]
    /\ started = 0

RaceNext ==
    \/ \E r \in Requests : Arrive(r, {"summary"}, {})
    \/ \E r \in Requests : memoryGetEnter(r)
    \/ \E r \in Requests : memoryStoreEnter(r)
    \/ memoryFatal
    \/ \E r \in Requests : WithAccountDetailsQuota(r)
    \/ \E r \in Requests : WithAccountDetailsEmail(r)
    \/ \E r \in Requests : PostCreateRecipeRaw(r)
    \/ \E r \in Requests : PostCreateRecipeFetch(r) /\ Stored(r)
    \/ \E r \in Requests : PostCreateRecipeParsed(r)
    \/ \E r \in Requests : PostCreateRecipeMarkdown(r) /\ Stored(r)
    \/ \E r \in Requests : PostCreateRecipeSummary(r)
    \/ \E r \in Requests : PostCreateRecipeSummarize(r) /\ Stored(r)
    \/ \E r \in Requests : Finish(r)

RaceSpec == RaceInit /\ [][RaceNext]_vars

\* ---- C1 ----
\* C1: a finished suggestions request (either version) that found the
\* suggestions cached made no call of Decr, did not change the quota and did
\* not call the model; one that missed and succeeded called the model once
\* and Decr once; and every call of Decr lowers a stored quota by exactly 1.
C1_Outcome ==
    \A r \in Requests :
        (req[r].pc = "done" /\ req[r].route \in SuggestionRoutes) =>
            /\ req[r].hit => (req[r].charges = 0 /\ req[r].qd = 0 /\ req[r].inv = 0)
            /\ (req[r].status = 200 /\ ~req[r].hit) => (req[r].charges = 1 /\ req[r].inv = 1)

C1_Charge ==
    \A r \in Requests :
        req'[r].charges > req[r].charges =>
            /\ req'[r].charges = req[r].charges + 1
            /\ IF Quota(store, req[r].session).ok
               THEN /\ Quota(store', req[r].session).ok
                    /\ Quota(store', req[r].session).val = Quota(store, req[r].session).val - 1
                    /\ req'[r].qd = req[r].qd - 1
               ELSE store' = store /\ req'[r].qd = req[r].qd

C2_FailedComputeKeepsQuota ==
    \A r \in Requests :
        (/\ req[r].pc = "done" /\ req[r].route \in SuggestionRoutes
         /\ req[r].status = 500 /\ req[r].inv = 1) => req[r].qd = 0

\* ---- C3 ----
\* C3: a GetOrFetch of a key that holds a value hands that value to its
\* caller, does not enter the resolver (no model call, no charge, no error
\* of a resolver that would fail) and leaves the cache as it was.
C3_Hit ==
    \A r \in Requests :
        LET k == ResolveKey(req[r])
        IN  (k # "" /\ k \in DOMAIN store /\ req'[r] # req[r]) =>
                /\ ReturnedFromCache(req[r], req'[r], store[k])
                /\ req'[r].inv = req[r].inv
                /\ req'[r].charges = req[r].charges
                /\ store' = store /\ ttl' = ttl

\* C3: every GetOrFetch of a present key returns the stored value, runs no
\* resolver and leaves the cache unchanged.
C3_PresentKeyReturnedWithoutCompute == [][C3_Hit]_vars

\* a recipe request answered from the cache alone, with the stored summary
C3_Witness ==
    \E r \in Requests :
        /\ req[r].pc = "done" /\ req[r].route = "summary" /\ req[r].status = 200
        /\ req[r].inv = 0
        /\ summarizedKey(req[r].u) \in DOMAIN store
        /\ req[r].body = SummaryJSON(store[summarizedKey(req[r].u)])

\* ---- C4 ----
\* C4: a resolver that fails ends the GetOrFetch with an error and writes
\* nothing, so that a key absent before is absent after; and a GetOrFetch of
\* an absent key enters the resolver of the key, every time.
C4_Failed(q, q2) ==
    /\ ComputeKey(q) # ""
    /\ q2 # q
    /\ IF q.pc = "fs_fetch" THEN q2.pc = "v2_agent" ELSE q2.pc = "done" /\ q2.status >= 400

C4_Step ==
    \A r \in Requests :
        /\ C4_Failed(req[r], req'[r]) => (store' = store /\ ttl' = ttl)
        /\ LET k == ResolveKey(req[r])
           IN  (k # "" /\ k \notin DOMAIN store /\ req'[r] # req[r]) =>
                   /\ req'[r].pc = MissPc(req[r].pc)
                   /\ req'[r].pc = "done" => req'[r].status = 500
                   /\ store' = store /\ ttl' = ttl

\* C4: a failed resolver returns an error and writes nothing; a lookup of an
\* absent key runs the resolver again.
C4_FailedComputeWritesNothing == [][C4_Step]_vars

\* the model failed one request's suggestions, the key is absent, and a
\* second request for the same id is in the resolver of the key
C4_Witness ==
    \E r1, r2 \in Requests :
        /\ req[r1].pc = "done" /\ req[r1].route = "suggestions" /\ req[r1].status = 500
        /\ req[r1].inv = 1
        /\ suggestionsKey(req[r1].u) \notin DOMAIN store
        /\ req[r2].pc = "grws_generate" /\ req[r2].u = req[r1].u

\* ---- C5 ----
\* C5: a request has neither entered its handler, called the model nor been
\* charged while it is in WithAccountDetails; and when the quota it carries
\* parses to 0 or less, its step through WithSufficientQuota ends it there,
\* with 400 when the account is known, the handler not entered and the cache
\* as it was.
C5_BeforeGate ==
    \A r \in Requests :
        req[r].pc \in {"wad_quota", "wad_setnx", "wad_email"} =>
            (~req[r].entered /\ req[r].inv = 0 /\ req[r].charges = 0)

C5_Gate ==
    \A r \in Requests :
        (/\ req[r].pc = "wad_email" /\ req[r].route \in Gated
         /\ ParseInt(req[r].quota).ok /\ ParseInt(req[r].quota).val <= 0
         /\ req'[r] # req[r]) =>
            /\ req'[r].pc = "done"
            /\ accountKey(req[r].cookie) \in DOMAIN store => req'[r].status = 400
            /\ ~req'[r].entered /\ req'[r].inv = 0 /\ req'[r].charges = 0
            /\ store' = store /\ ttl' = ttl

\* C5: a quota of 0 or less is rejected by WithSufficientQuota before the
\* handler runs, with no recipe key touched, no model call and no charge.
C5_ExhaustedQuotaRejectedBeforeHandler == [](C5_BeforeGate) /\ [][C5_Gate]_vars

\* a gated request rejected for a quota of 0
C5_Witness ==
    \E r \in Requests :
        /\ req[r].pc = "done" /\ req[r].route \in Gated /\ req[r].status = 400
        /\ req[r].body = "the current account has insufficient quota"
        /\ ~req[r].entered
        /\ Quota(store, req[r].session).ok /\ Quota(store, req[r].session).val <= 0

\* ---- C6 ----
\* C6: the charge of a suggestions request has no floor: it lowers the
\* stored quota by 1 whatever the quota is by then, 0 or less included; and
\* no step raises a stored quota that is negative.
C6_Step ==
    /\ \A r \in Requests :
          (/\ req[r].pc \in {"grws_decr", "v2_decr"} /\ req'[r] # req[r]
           /\ Quota(store, req[r].session).ok) =>
              /\ Quota(store', req[r].session).ok
              /\ Quota(store', req[r].session).val = Quota(store, req[r].session).val - 1
    /\ \A a \in Accounts :
          (Quota(store, a).ok /\ Quota(store, a).val < 0 /\ sessionQuotaKey(a) \in DOMAIN store') =>
              (Quota(store', a).ok /\ Quota(store', a).val <= Quota(store, a).val)

C7_Written(q, q2, v) ==
    CASE q.pc = "pcr_fetch" -> q2.val = v
      [] q.pc = "pcr_markdown" -> q2.val = v
      [] q.pc = "pcr_summarize" -> q2.body = SummaryJSON(v)
      [] q.pc = "grws_generate" -> q2.body = v
      [] q.pc = "fs_fetch" -> q2.val = v

C7_Step ==
    \A r \in Requests :
        LET k == ComputeKey(req[r])
        IN  (k # "" /\ req'[r] # req[r] /\ ~C4_Failed(req[r], req'[r])) =>
                /\ k \in DOMAIN store'
                /\ C7_Written(req[r], req'[r], store'[k])
                /\ ttl'[k] = 0
                /\ \A x \in DOMAIN store \ {k} : x \in DOMAIN store' /\ store'[x] = store[x]

\* C7: every resolver that succeeded writes its value whatever the key holds
\* by then: the last write wins.
C7_LastWriteWins == [][C7_Step]_vars

\* two requests missed one suggestions key, each called the model, got
\* different answers and wrote; the stored value is the answer of one
C7_Witness ==
    \E r1, r2 \in Requests :
        /\ r1 # r2
        /\ req[r1].pc = "done" /\ req[r2].pc = "done"
        /\ req[r1].route = "suggestions" /\ req[r2].route = "suggestions"
        /\ req[r1].u = req[r2].u
        /\ req[r1].status = 200 /\ req[r2].status = 200
        /\ ~req[r1].hit /\ ~req[r2].hit /\ req[r1].inv = 1 /\ req[r2].inv = 1
        /\ req[r1].body # req[r2].body
        /\ suggestionsKey(req[r1].u) \in DOMAIN store
        /\ store[suggestionsKey(req[r1].u)] = req[r2].body

\* ---- C8 ----
\* C8: a provisioning step (the SetNx of PostOauthResponse or of
\* WithAccountDetails) writes the maximum 10 with the quota lifespan when the
\* account has no quota record, and writes nothing when it has one.
C8_Step ==
    \A r \in Requests :
        (req[r].pc \in {"wad_setnx", "oauth_quota"} /\ req'[r] # req[r]) =>
            LET k == sessionQuotaKey(IF req[r].pc = "wad_setnx" THEN req[r].cookie ELSE req[r].sub)
            IN  IF k \in DOMAIN store
                THEN store' = store /\ ttl' = ttl
                ELSE /\ store' = Put(store, k, Itoa(maxQuota))
                     /\ ttl' = Put(ttl, k, maxQuotaLifespanSeconds)

\* C8: provisioning writes the quota 10 only when the account has no quota
\* record; a second provisioning writes nothing.
C8_ProvisionedOnce == [][C8_Step]_vars

\* two logins of one account have completed and its quota record holds 10
C8_Witness ==
    \E r1, r2 \in Requests :
        /\ r1 # r2
        /\ req[r1].pc = "done" /\ req[r2].pc = "done"
        /\ req[r1].route = "oauth" /\ req[r2].route = "oauth"
        /\ req[r1].status = 302 /\ req[r2].status = 302
        /\ req[r1].sub = req[r2].sub
        /\ sessionQuotaKey(req[r1].sub) \in DOMAIN store
        /\ store[sessionQuotaKey(req[r1].sub)] = Itoa(maxQuota)

\* ---- C9 ----
\* C9: no step raises the quota of an account whose record is there before
\* and after the step.
C9_Step ==
    \A a \in Accounts :
        (Quota(store, a).ok /\ sessionQuotaKey(a) \in DOMAIN store') =>
            (Quota(store', a).ok /\ Quota(store', a).val <= Quota(store, a).val)

C10_Ends ==
    \A r \in Requests :
        (req[r].pc = "done" /\ req[r].route = "suggestions" /\ req[r].status = 200) =>
            suggestionsKey(req[r].u) \in DOMAIN store

C10_Added(k) == k \notin DOMAIN store /\ k \in DOMAIN store'

C10_Step ==
    \A r \in Requests :
        /\ (req[r].pc = "grws_summary" /\ summarizedKey(req[r].u) \notin DOMAIN store
                /\ req'[r] # req[r]) =>
              /\ req'[r].pc = "done" /\ req'[r].status = 500
              /\ req'[r].inv = req[r].inv
              /\ store' = store /\ ttl' = ttl
        /\ (req[r].route = "suggestions" /\ req'[r] # req[r]) =>
              \A k \in DOMAIN store' :
                 (k \notin DOMAIN store \/ store'[k] # store[k]) =>
                    k \in {suggestionsKey(req[r].u), sessionQuotaKey(req[r].session)}
        /\ (req[r].route \in {"summary", "suggestions"} /\ req'[r] # req[r]) =>
              /\ C10_Added(parsedKey(req[r].u)) => rawKey(req[r].u) \in DOMAIN store
              /\ C10_Added(summarizedKey(req[r].u)) => parsedKey(req[r].u) \in DOMAIN store
              /\ C10_Added(suggestionsKey(req[r].u)) => summarizedKey(req[r].u) \in DOMAIN store

C11_AtRaw ==
    \A r \in Requests :
        (req[r].route = "summary"
            /\ (req[r].pc \in {"pcr_raw", "pcr_fetch"}
                    \/ (req[r].pc = "done" /\ req[r].body = "unable to fetch raw"))) =>
            req[r].inv = 0 /\ req[r].charges = 0

C11_Step ==
    \A r \in Requests :
        (req[r].pc = "pcr_fetch" /\ req'[r].pc = "done") =>
            /\ req'[r].status = 400 /\ req'[r].body = "unable to fetch raw"
            /\ req'[r].inv = 0
            /\ store' = store /\ ttl' = ttl

\* C11: a failed raw fetch ends PostCreateRecipe with an error, creates no
\* entry and invokes no model.
C11_FailedFetchWritesNothing == [](C11_AtRaw) /\ [][C11_Step]_vars

\* a recipe request has ended with the error of the raw stage and nothing is
\* cached of its id
C11_Witness ==
    \E r \in Requests :
        /\ req[r].pc = "done" /\ req[r].route = "summary" /\ req[r].entered
        /\ req[r].status = 400 /\ req[r].body = "unable to fetch raw"
        /\ rawKey(req[r].u) \notin DOMAIN store
        /\ parsedKey(req[r].u) \notin DOMAIN store
        /\ summarizedKey(req[r].u) \notin DOMAIN store
        /\ suggestionsKey(req[r].u) \notin DOMAIN store

C12_Refused == {SummarizeError("abort"), SummarizeError("unparsable")}

C12_Ended ==
    \A r \in Requests :
        (req[r].pc = "done" /\ req[r].route = "summary" /\ req[r].body \in C12_Refused) =>
            req[r].status = 500 /\ req[r].inv = 1

C12_Step ==
    \A r \in Requests :
        /\ (req[r].pc = "pcr_summarize" /\ req'[r].pc = "done" /\ req'[r].status # 200) =>
              /\ req'[r].status = 500
              /\ store' = store /\ ttl' = ttl
        /\ (req[r].pc = "pcr_summarize" /\ req'[r] # req[r]) =>
              req'[r].inv = req[r].inv + 1
        /\ (req[r].pc = "pcr_summary" /\ summarizedKey(req[r].u) \notin DOMAIN store
                /\ req'[r] # req[r]) =>
              req'[r].pc = "pcr_summarize"

\* C12: a summary the model aborted or that does not parse ends
\* PostCreateRecipe with an error and writes nothing, and a recipe request
\* that finds no summarized entry of its id runs the summarization.
C12_RefusedSummaryNotCached == [](C12_Ended) /\ [][C12_Step]_vars

\* a recipe request ended with the model's abort, and another recipe request
\* for the same id, which found raw and parsed cached, is about to summarize
C12_Witness ==
    \E r, q \in Requests :
        /\ req[r].pc = "done" /\ req[r].route = "summary"
        /\ req[r].body = SummarizeError("abort") /\ req[r].status = 500
        /\ req[q].route = "summary" /\ req[q].pc = "pcr_summarize"
        /\ req[q].u = req[r].u /\ req[q].inv = 0
        /\ rawKey(req[r].u) \in DOMAIN store /\ parsedKey(req[r].u) \in DOMAIN store
        /\ summarizedKey(req[r].u) \notin DOMAIN store

\* the step from q to q2 handed value v of the resolver to its caller
C13_Returned(q, q2, v) ==
    CASE q.pc = "pcr_fetch" -> q2.pc = "pcr_parsed" /\ q2.val = v
      [] q.pc = "pcr_markdown" -> q2.pc = "pcr_summary" /\ q2.val = v
      [] q.pc = "pcr_summarize" -> q2.pc = "done" /\ q2.status = 200 /\ q2.body = SummaryJSON(v)
      [] q.pc = "grws_generate" -> q2.pc = "done" /\ q2.status = 200 /\ q2.body = v
      [] q.pc = "fs_fetch" -> q2.pc = "fs_parsed" /\ q2.val = v

\* the values the resolver of request record q can compute
C13_Computed(q) ==
    CASE q.pc = "pcr_fetch" -> {PageBody(q.u, code) : code \in PageStatuses}
      [] q.pc = "pcr_markdown" -> {Markdown(q.val)}
      [] q.pc = "pcr_summarize" -> {SummaryOf(q.val)}
      [] q.pc = "grws_generate" -> SuggestionsOf(q.val)
      [] q.pc = "fs_fetch" -> {PageBody(recentSuggestionRx(q.u), code) : code \in PageStatuses}

C13_Stated ==
    \A r \in Requests :
        LET k == ComputeKey(req[r])
        IN  (k # "" /\ req'[r] # req[r] /\ ~C4_Failed(req[r], req'[r])) =>
                \E v \in C13_Computed(req[r]) :
                    /\ C13_Returned(req[r], req'[r], v)
                    /\ k \in DOMAIN store' /\ store'[k] = v /\ ttl'[k] = 0

\* C13 as stated: when a resolver succeeded and its value is returned, the
\* store holds that value under the key, without expiry, on either backend.
C13_ReturnedValueStored == [][C13_Stated]_vars

C13_Step ==
    \A r \in Requests :
        LET k == ComputeKey(req[r])
        IN  (k # "" /\ req'[r] # req[r] /\ ~C4_Failed(req[r], req'[r])) =>
                \E v \in C13_Computed(req[r]) :
                    /\ C13_Returned(req[r], req'[r], v)
                    /\ \/ k \in DOMAIN store' /\ store'[k] = v /\ ttl'[k] = 0
                       \/ backend = "redis" /\ store' = store /\ ttl' = ttl

\* C13: a resolver that succeeded hands its value to the caller; the
\* in-memory store then holds the value under the key without expiry; the
\* Redis store holds it without expiry unless its SET failed, and then the
\* store is as it was and the value is returned all the same.
C13_ReturnedValueStoredUnlessSetFailed == [][C13_Step]_vars

\* on Redis a recipe request was answered with a summary it computed and
\* the summarized key of its id is not in the store
C13_Witness ==
    \E r \in Requests :
        /\ backend = "redis"
        /\ req[r].pc = "done" /\ req[r].route = "summary" /\ req[r].status = 200
        /\ req[r].inv = 1
        /\ summarizedKey(req[r].u) \notin DOMAIN store

\* C14 as stated: a request that missed, called the model and was answered
\* with what the model computed, at the summary stage or at the suggestions
\* stage, has charged its account once, and the quota went down by one.
C14_ModelCallChargesOne ==
    \A r \in Requests :
        (req[r].pc = "done" /\ req[r].status = 200 /\ req[r].inv >= 1
            /\ req[r].route \in {"summary", "suggestions", "suggestionsV2"}) =>
            req[r].charges = 1 /\ req[r].qd = 0 - 1

\* the suggestions entries of the cache
C15_Entries == {k \in DOMAIN store : HasPrefix(k, "recipes:suggestions-json:")}

C15_Stated ==
    \A r \in Requests :
        (req[r].pc = "recent" /\ req'[r].pc = "done" /\ req'[r].status = 200) =>
            /\ Len(req'[r].list) <= sampleSize
            /\ \A i \in DOMAIN req'[r].list :
                  /\ req'[r].list[i] # ""
                  /\ suggestionsKey(req'[r].list[i]) \in C15_Entries

\* C15 as stated: GetRecentSuggestions returns at most 3 identifiers, each
\* the non-empty, whole id of a suggestions entry in the cache when it was
\* called, for entries keyed by URL and by content hash alike.
C15_ReturnsIdsOfEntries == [][C15_Stated]_vars

C16_Stated ==
    \A r \in Requests :
        (req[r].pc = "recent" /\ req'[r] # req[r]) =>
            LET k == Cardinality(C15_Entries)
            IN  /\ req'[r].pc = "done" /\ req'[r].status = 200
                /\ Len(req'[r].list) = (IF k < sampleSize THEN k ELSE sampleSize)
                /\ req'[r].body = "[" \o jsonStrings(req'[r].list) \o "]"

\* C16 as stated: with k suggestions entries cached GetRecentSuggestions
\* succeeds and answers a JSON array of min(3, k) strings, for k below 3 and
\* for k = 0 too.
C16_AnswersArrayOfMin3 == [][C16_Stated]_vars

\* the input is a URL: the pattern matches all of it
C17_IsUrl(input) == recentSuggestionRx(input) = input

\* the requests whose handler derived a cache key from their body
C17_Keyed == {r \in Requests : req[r].route = "suggestionsV2" /\ req[r].inv = 1}

\* C17 as stated: the key of an input that is a URL is the input itself,
\* the key of any other input is the hash of the whole input, so two
\* different texts that are not URLs have different keys, also when a URL
\* stands in them.
C17_KeyOfWholeInput ==
    /\ \A r \in C17_Keyed :
          getCacheKeyForInput(req[r].u) =
              IF C17_IsUrl(req[r].u)
              THEN "recipes:suggestions-json:" \o req[r].u
              ELSE "recipes:suggestions-json:content:" \o HashContent(req[r].u)
    /\ \A r, q \in C17_Keyed :
          (req[r].u # req[q].u /\ ~C17_IsUrl(req[r].u) /\ ~C17_IsUrl(req[q].u)) =>
              getCacheKeyForInput(req[r].u) # getCacheKeyForInput(req[q].u)

\* the key forms as the specification words them
C18_BareForms ==
    {"raw:", "parsed:", "summarized:", "suggestions-json:",
     "accounts:", "quotas:", "sessions:"}

\* the key forms of the code: the recipe stages live under recipes:
C18_Forms ==
    {"recipes:raw:", "recipes:parsed:", "recipes:summarized:",
     "recipes:suggestions-json:", "accounts:", "quotas:", "sessions:"}

\* the keys requests in flight are about to read or to resolve
C18_InUse ==
    {ResolveKey(req[r]) : r \in Requests} \cup {ComputeKey(req[r]) : r \in Requests}
        \cup {getCacheKeyForInput(req[r].u) : r \in {q \in Requests : req[q].pc \in {"v2_get", "v2_set"}}}
        \cup {summarizedKey(AgentId(req[r].u)) : r \in {q \in Requests : req[q].pc = "v2_agent"}}

C19_ObservedValueStays ==
    \A r \in Requests :
        (/\ req[r].pc = "done" /\ req[r].route = "suggestions" /\ req[r].status = 200
         /\ suggestionsKey(req[r].u) \in DOMAIN store) =>
            store[suggestionsKey(req[r].u)] = req[r].body

\* the step of request record q is a write of key k: the end of a resolver
\* that missed k earlier, a Set, or a Decr of the quota
C19_Writes(q, k) ==
    \/ ComputeKey(q) = k
    \/ q.pc = "fs_markdown" /\ k = parsedKey(recentSuggestionRx(q.u))
    \/ q.pc = "v2_set" /\ k = getCacheKeyForInput(q.u)
    \/ q.pc = "v2_agent" /\ k = summarizedKey(AgentId(q.u))
    \/ q.pc \in {"grws_decr", "v2_decr"} /\ k = sessionQuotaKey(q.session)
    \/ q.pc = "oauth_accounts" /\ k = accountKey(q.sub)
    \/ q.pc = "oauth_sessions" /\ k = sessionKey(q.sub)

C19_Step ==
    /\ \A r \in Requests :
          LET k == ResolveKey(req[r])
          IN  (k # "" /\ req'[r] # req[r]) =>
                /\ store' = store /\ ttl' = ttl
                /\ k \in DOMAIN store => ReturnedFromCache(req[r], req'[r], store[k])
    /\ \A k \in DOMAIN store \cap DOMAIN store' :
          store'[k] # store[k] =>
             \E r \in Requests : req'[r] # req[r] /\ C19_Writes(req[r], k)

\* C19: a read returns the value the key holds and changes nothing; the
\* value of a key changes only in a write to it: the end of a resolver that
\* had missed the key, a Set, or a Decr.  A resolver that missed before
\* another one wrote replaces the value other requests have read.
C19_ReadsReturnLastWrite == [][C19_Step]_vars

\* two requests resolved one suggestions key; the one that wrote first was
\* answered with a value the key no longer holds
C19_Witness ==
    \E r, q \in Requests :
        /\ r # q /\ req[r].pc = "done" /\ req[q].pc = "done"
        /\ req[r].route = "suggestions" /\ req[q].route = "suggestions"
        /\ req[r].u = req[q].u /\ req[r].status = 200 /\ req[q].status = 200
        /\ suggestionsKey(req[r].u) \in DOMAIN store
        /\ store[suggestionsKey(req[r].u)] # req[r].body
        /\ store[suggestionsKey(req[r].u)] = req[q].body

C20_Stated ==
    \A r \in Requests :
        (req[r].pc = "oauth_sessions" /\ req'[r] # req[r]) =>
            LET k == sessionKey(req[r].sub)
            IN  /\ k \in DOMAIN store'
                /\ ttl'[k] = sessionLifespanSeconds

\* C20 as stated: the two stores behave alike; on either of them the entry
\* a SetEx with a lifespan above 0 wrote carries that lifespan, so that it
\* expires and is no longer read once the lifespan has passed.
C20_SetExExpiresOnBothStores == [][C20_Stated]_vars

\* prefixes a caller scans for: those of the handlers' key forms, and with
\* ScanGlobs some that hold a character the KEYS command gives a meaning
ScanPrefixes == C18_Forms \cup {"recipes:", "recipes:suggestions-json:content:", ""}
ScanGlobs == {"recipes:suggestions-json:http?://"}

\* both stores answer pattern p* with the stored keys that start with p
C21_SameKeys(p) ==
    /\ memoryGetKeys(p \o "*") = {k \in DOMAIN store : HasPrefix(k, p)}
    /\ redisGetKeys(p \o "*") = memoryGetKeys(p \o "*")

C21_Scanned ==
    \A r \in Requests :
        (req[r].pc = "recent" /\ req'[r].pc = "done" /\ req'[r].status = 200) =>
            Len(req'[r].list) =
                (IF Cardinality(C15_Entries) < sampleSize
                 THEN Cardinality(C15_Entries) ELSE sampleSize)

C22_MapAccessExclusive ==
    \A r, q \in Requests : ~Racing(r, q)

\* the bodies of pages answered with a status that is neither 2xx nor 3xx
C23_ErrorPages(u) ==
    {PageBody(u, code) : code \in {c \in PageStatuses : c < 200 \/ c >= 400}}

C23_Stated ==
    \A r \in Requests :
        (req[r].pc = "pcr_fetch" /\ req'[r] # req[r]) =>
            /\ req'[r].pc = "pcr_parsed" => req'[r].val \notin C23_ErrorPages(req[r].u)
            /\ rawKey(req[r].u) \in DOMAIN store' =>
                  store'[rawKey(req[r].u)] \notin C23_ErrorPages(req[r].u)

\* C23 as stated: a page answered with a status that is neither 2xx nor 3xx
\* is a fetch error: the recipe request does not go on with its body and
\* nothing of it is written under the raw key.
C23_ErrorStatusNotCached == [][C23_Stated]_vars

\* the lookups of the claim: those of GetOrFetch with a resolver that
\* computes, and the plain Get of GetRecipeWineSuggestionsV2
C24_Lookups == {"pcr_raw", "pcr_parsed", "pcr_summary", "grws_suggestions",
                "fs_raw", "fs_parsed", "v2_get"}

C24_Key(q) == IF q.pc = "v2_get" THEN getCacheKeyForInput(q.u) ELSE ResolveKey(q)

C24_MissPc(pc) == IF pc = "v2_get" THEN "v2_agent" ELSE MissPc(pc)

\* a lookup of a key the store holds is answered with the value or with an
\* error of the store, never with key-not-found: it must not go the way of a
\* miss
C24_Stated ==
    \A r \in Requests :
        (/\ req[r].pc \in C24_Lookups /\ req'[r] # req[r]
         /\ C24_Key(req[r]) \in DOMAIN store) =>
            /\ req'[r].pc # C24_MissPc(req[r].pc)
            /\ req'[r].inv = req[r].inv /\ req'[r].charges = req[r].charges

\* C24 as stated: a read that fails with an error other than key-not-found
\* is never taken for a miss, neither by GetOrFetch nor by
\* GetRecipeWineSuggestionsV2: no resolver and no model runs, nothing is
\* charged.
C24_ReadErrorIsNoMiss == [][C24_Stated]_vars

\* C25 as stated: when a suggestionsV2 request for a URL was answered with
\* suggestions the model made, the cache holds the raw, parsed, summarized
\* and suggestions entries of the URL, as after the staged requests.
C25_V2FillsAllFourStages ==
    \A r \in Requests :
        (/\ req[r].pc = "done" /\ req[r].route = "suggestionsV2"
         /\ req[r].status = 200 /\ ~req[r].hit
         /\ recentSuggestionRx(req[r].u) = req[r].u) =>
            {rawKey(req[r].u), parsedKey(req[r].u), summarizedKey(req[r].u),
             suggestionsKey(req[r].u)} \subseteq DOMAIN store

\* C26 as stated: whatever requests and tool calls were made, the value
\* under the raw key of an id is content the fetcher returned for the id.
C26_RawIsFetchedContent ==
    \A u \in Urls :
        rawKey(u) \in DOMAIN store =>
            store[rawKey(u)] \in {PageBody(u, code) : code \in PageStatuses}

\* ---- C27 ----
\* each stage of an id is cached only over the stage below it
C27_Chain ==
    \A u \in Urls :
        /\ suggestionsKey(u) \in DOMAIN store => summarizedKey(u) \in DOMAIN store
        /\ summarizedKey(u) \in DOMAIN store => parsedKey(u) \in DOMAIN store
        /\ parsedKey(u) \in DOMAIN store => rawKey(u) \in DOMAIN store

C28_Step(r) ==
    LET key == sessionQuotaKey(req[r].cookie)
    IN  /\ (/\ req[r].pc = "wad_quota" /\ req'[r].pc # "wad_quota"
            /\ req[r].cookie # NoCookie
            /\ key \notin DOMAIN store)
               => req'[r].pc = "wad_setnx" /\ store' = store
        /\ (/\ req[r].pc = "wad_setnx" /\ req'[r].pc # "wad_setnx"
            /\ key \notin DOMAIN store)
               => /\ store' = Put(store, key, "10")
                  /\ ttl' = Put(ttl, key, 604800)
                  /\ req'[r].pc = "wad_email"
                  /\ req'[r].quota = "10"

\* C28: when quotas:<account> is absent on a request carrying a session
\* cookie, WithAccountDetails provisions it by set-if-absent to 10 with a
\* lifespan of 604800 seconds and the request proceeds with quota 10.
C28_AbsentQuotaProvisioned == [][\A r \in Requests : C28_Step(r)]_vars

\* a request of an account that never logged in was provisioned
C28_Witness ==
    \E r \in Requests :
        /\ req[r].pc = "wad_email" /\ req[r].quota = "10"
        /\ req[r].cookie # NoCookie
        /\ accountKey(req[r].cookie) \notin DOMAIN store
        /\ sessionQuotaKey(req[r].cookie) \in DOMAIN store
        /\ store[sessionQuotaKey(req[r].cookie)] = "10"
        /\ ttl[sessionQuotaKey(req[r].cookie)] = 604800

\* ---- C29 ----
\* a step of a request removes no key but the session record of the account
\* of a request in DeleteSession, and DeleteSession touches no other key
C29_Step ==
    req' # req =>
        /\ \A k \in DOMAIN store \ DOMAIN store' :
              \E r \in Requests :
                 /\ req[r].pc = "logout" /\ req'[r].pc = "done"
                 /\ k = "sessions:" \o req[r].cookie
        /\ \A r \in Requests :
              (req[r].pc = "logout" /\ req'[r].pc = "done") =>
                 /\ req'[r].status = 302 =>
                       "sessions:" \o req[r].cookie \notin DOMAIN store'
                 /\ DOMAIN store' \subseteq DOMAIN store
                 /\ \A k \in DOMAIN store' :
                       store'[k] = store[k] /\ ttl'[k] = ttl[k]

\* C29: no handler deletes a pipeline, account or quota entry; the only
\* explicit deletion is DeleteSession, which removes sessions:<accountId> of
\* the requesting account and leaves every other key unchanged.
C29_OnlyLogoutDeletes == [][C29_Step]_vars

\* an account with its records and cached recipes has logged out
C29_Witness ==
    \E r \in Requests :
        /\ req[r].route = "logout" /\ req[r].pc = "done" /\ req[r].status = 302
        /\ sessionKey(req[r].cookie) \notin DOMAIN store
        /\ {accountKey(req[r].cookie), sessionQuotaKey(req[r].cookie),
             rawKey(LongUrl)} \subseteq DOMAIN store

\* ---- C30 ----
\* a gated request reads a quota that is no integer and carries it to the
\* gate, which answers with an error before the handler, the store untouched
C30_Step(r) ==
    LET key == sessionQuotaKey(req[r].cookie)
    IN  /\ (/\ req[r].pc = "wad_quota" /\ req'[r].pc # "wad_quota"
            /\ req[r].cookie # NoCookie
            /\ key \in DOMAIN store /\ ~ParseInt(store[key]).ok)
               => /\ req'[r].pc = "wad_email" /\ req'[r].quota = store[key]
                  /\ store' = store /\ ttl' = ttl
        /\ (/\ req[r].pc = "wad_email" /\ req'[r].pc # "wad_email"
            /\ req[r].route \in Gated
            /\ ~ParseInt(req[r].quota).ok)
               => /\ req'[r].pc = "done" /\ req'[r].status = 500
                  /\ ~req'[r].entered /\ req'[r].inv = 0
                  /\ store' = store /\ ttl' = ttl

\* C30: if the value stored at quotas:<account> does not parse as an
\* integer, the gated request is rejected with an error, the wrapped handler
\* is not invoked, and the store is left unchanged.
C30_UnparsableQuotaRejected == [][\A r \in Requests : C30_Step(r)]_vars

\* a gated request was refused over the quota record a tool call overwrote
C30_Witness ==
    \E r \in Requests :
        /\ req[r].route \in Gated /\ req[r].pc = "done"
        /\ req[r].status = 500 /\ req[r].body = "unable to parse quota"
        /\ sessionQuotaKey(req[r].cookie) \in DOMAIN store
        /\ ~ParseInt(store[sessionQuotaKey(req[r].cookie)]).ok

\* ---- C31 ----
\* request r, abandoned by its client, is inside the resolver of stage pc
C31_InCallback(r, pc) == req[r].gone # "" /\ req[r].pc = pc

\* the abandoned request r has its stage under key, or its resolver failed
\* with the error of the handler
C31_Settled(r, key, body) ==
    /\ req[r].gone # ""
    /\ \/ key \in DOMAIN store
       \/ /\ req[r].pc = "done" /\ req[r].status \in {400, 500}
          /\ HasPrefix(req[r].body, body)

\* C31: once a handler has invoked a compute callback, abandonment of the
\* request by the client does not cancel it: if the callback succeeds, its
\* result is eventually written to the cache under the key being resolved.
C31_AbandonedCallbackStillStores ==
    \A r \in Requests :
        /\ C31_InCallback(r, "pcr_fetch") ~>
              C31_Settled(r, rawKey(req[r].u), "unable to fetch raw")
        /\ C31_InCallback(r, "pcr_markdown") ~>
              C31_Settled(r, parsedKey(req[r].u), "unable to get content from page")
        /\ C31_InCallback(r, "pcr_summarize") ~>
              C31_Settled(r, summarizedKey(req[r].u), "unable to summarize recipe contents")

\* a request whose client went away during the fetch has cached the page and
\* its summary
C31_Witness ==
    \E r \in Requests :
        /\ req[r].gone = "pcr_fetch" /\ req[r].pc = "done" /\ req[r].inv = 1
        /\ {rawKey(req[r].u), summarizedKey(req[r].u)} \subseteq DOMAIN store

\* C32 as stated: every suggestions result the model produced on a miss and
\* the request returned was paid for by one successful decrement of the
\* quota of the account; without the decrement nothing is produced or
\* returned.
C32_ReturnedSuggestionsWereCharged ==
    \A r \in Requests :
        (/\ req[r].route \in SuggestionRoutes /\ req[r].pc = "done"
         /\ req[r].status = 200 /\ req[r].inv > 0)
            => req[r].qd = 0 - 1

\* the quota a request carries to the gate is the stored one: a read that
\* finds the record hands on its value, and the step after a read that found
\* nothing or failed hands on no positive quota while the record says <= 0
C33_Step(r) ==
    LET key == sessionQuotaKey(req[r].cookie)
    IN  /\ (/\ req[r].pc = "wad_quota" /\ req'[r].pc = "wad_email"
            /\ req[r].cookie # NoCookie)
               => key \in DOMAIN store /\ req'[r].quota = store[key]
        /\ (/\ req[r].pc = "wad_setnx" /\ req'[r].pc = "wad_email"
            /\ Quota(store', req[r].cookie).ok
            /\ Quota(store', req[r].cookie).val <= 0)
               => /\ ParseInt(req'[r].quota).ok
                  /\ ParseInt(req'[r].quota).val <= 0

\* C33 as stated: the quota the gate compares against 0 is the value stored
\* at quotas:<account> at the time of the read; a failed read or a lost
\* set-if-absent never lets a request through for an account whose stored
\* quota is <= 0.
C33_GateSeesStoredQuota == [][\A r \in Requests : C33_Step(r)]_vars

\* C34 as stated: with the requests of an account served one at a time and
\* every decrement succeeding, quotas:<account> is an integer within 0..10
\* in every reachable state.
C34_QuotaWithinBounds ==
    \A a \in Accounts :
        sessionQuotaKey(a) \in DOMAIN store =>
            /\ Quota(store, a).ok
            /\ Quota(store, a).val \in 0..10

\* a model run of request r can fail after any of its steps, so the run of
\* a request that ends in an error left the suggestions key of the input and
\* the quota of the account alone only if none of its steps touches them;
\* the step that ends the run in failure answers with an error and writes
\* nothing
C35_Step(r) ==
    LET keys == {getCacheKeyForInput(req[r].u), sessionQuotaKey(req[r].session)}
    IN  /\ (req[r].pc = "v2_agent" /\ req'[r] # req[r]) =>
              \A k \in keys :
                 /\ k \in DOMAIN store <=> k \in DOMAIN store'
                 /\ k \in DOMAIN store => store'[k] = store[k]
        /\ (req[r].pc = "v2_agent" /\ req'[r].pc = "done") =>
              req'[r].status = 500 /\ store' = store

\* C35 as stated: if the model run of GetRecipeWineSuggestionsV2 fails, or
\* its response does not parse or carries an error message, the request
\* returns an error, nothing is written under the suggestions key of the
\* input and the quota of the account is unchanged.
C35_FailedRunLeavesNoTrace == [][\A r \in Requests : C35_Step(r)]_vars

\* C36 as stated: a request passes WithSessionRequired only if
\* sessions:<accountId> exists in the store for the account id of its
\* cookie; after logout or expiry of the session entry a request with the
\* same cookie value is not admitted.
C36_AdmittedOnlyWithSession ==
    [][\A r \in Requests :
          (/\ req[r].pc = "idle" /\ req'[r].pc \notin {"idle", "done"}
           /\ req'[r].route \in SessionRoutes)
              => sessionKey(req'[r].cookie) \in DOMAIN store]_vars

\* C37 as stated: PostOauthResponse writes accounts:<id>, sessions:<id> and
\* quotas:<id> and sets the session cookie only when the verification of the
\* credential JWT succeeded; when it fails, or the CSRF check fails, no key
\* is written and no session cookie is set.
C37_LoginWritesOnlyWhenVerified ==
    [][\A r \in Requests :
          (/\ req[r].route = "oauth" /\ req'[r] # req[r]
           /\ (store' # store \/ req'[r].setcookie # ""))
              => req[r].cred = "valid"]_vars

\* the records of the accounts: quota, email and session
C38_AccountKeys ==
    UNION {{sessionQuotaKey(a), accountKey(a), sessionKey(a)} : a \in Accounts}

\* C38 as stated: nothing the Model Service does through its tools
\* (FetchSite, CacheGet, CacheWrite) changes a quotas:, accounts: or
\* sessions: entry; across a tool-augmented model run these entries are
\* unchanged.
C38_ToolsLeaveAccountsAlone ==
    [][\A r \in Requests :
          (/\ req[r].pc \in {"v2_agent", "fs_raw", "fs_fetch", "fs_parsed", "fs_markdown"}
           /\ req'[r] # req[r])
              => \A k \in C38_AccountKeys :
                    /\ k \in DOMAIN store <=> k \in DOMAIN store'
                    /\ k \in DOMAIN store => store'[k] = store[k] /\ ttl'[k] = ttl[k]]_vars

\* C39 as stated: PostCreateRecipe completes with a response for every
\* non-empty url path value, values shorter than 15 characters included; it
\* never fails with an out-of-range slice before it reaches the cache.
C39_ShortUrlGetsResponse ==
    \A r \in Requests :
        (/\ req[r].route = "summary" /\ req[r].pc = "done"
         /\ req[r].entered /\ req[r].u # "")
            => /\ req[r].status # 0
               /\ ~HasPrefix(req[r].body, "panic")

====
